---- MODULE Spec2Model ----
(***************************************************************************)
(* A model of flatlens' format detector (src/js/Detector.js): the layout,  *)
(* resolution and projection tiers of Detector.detect(), the XMP           *)
(* classification and the EBML walker with its variable-length integers.   *)
(*                                                                         *)
(* JavaScript strings are sequences of one-character strings, so that      *)
(* toUpperCase, toLowerCase, includes and endsWith are computed and not    *)
(* assumed.  Aspect ratios w / h are compared with decimal thresholds by   *)
(* cross-multiplication, which agrees with the IEEE division for every     *)
(* frame size below 10^14.                                                 *)
(*                                                                         *)
(* The renderer (src/js/Render.js with the functions of src/js/Utils.js it *)
(* calls) is modelled with its camera, clamps and materials.  Degrees are  *)
(* hundredths of a degree, radians are milliradians, Math.tan and          *)
(* Math.atan are a table at every half degree, and NaN is a number of its  *)
(* own that every arithmetic operation hands on.                           *)
(***************************************************************************)
EXTENDS Integers, Sequences, FiniteSets, TLC

VARIABLES
    name,              \* Store.name: the file name of the loaded video
    file,              \* Store.file: the byte source handed to the detector
    layout,            \* Store.layout: the caller's current layout
    projection,        \* Store.projection: the caller's current projection
    videoTracks,       \* Store.video.videoTracks: the stereoMode of each track
    videoWidth,        \* Store.video.videoWidth
    videoHeight,       \* Store.video.videoHeight
    pc,                \* the position of the detect() call
    layoutResult,      \* detect(): const layoutResult
    resolutionResult,  \* detect(): const resolutionResult
    projectionResult,  \* detect(): const projectionResult
    meta,              \* detectProjection(): const meta, once the await settles
    stack,             \* _readMkvProjectionType(): the active loops, outermost first
    found,             \* _readMkvProjectionType(): let found
    lastIter,          \* the loop iteration completed last: loop, position before and
                       \* after, and the parity of the number of iterations completed
    vintArgs,          \* readVint(): the arguments of a single call
    vintResult,        \* readVint(): what that call returned
    view,              \* Store.view
    resolution,        \* Store.resolution
    eye,               \* Store.eye
    calibration,       \* Store.antiR .. Store.depthCompression, in hundredths
    canvas,            \* Store.canvas: clientWidth and clientHeight
    camera,            \* Render.camera: "orthoCamera" or "perspCamera"
    perspCamera,       \* Render.perspCamera: fov, aspect and rotation
    orthoCamera,       \* Render.orthoCamera: rotation
    yaw,               \* Render.yaw
    pitch,             \* Render.pitch
    projHFovDeg,       \* Render._projHFovDeg (0 for null)
    projVFovDeg,       \* Render._projVFovDeg (0 for null)
    geometry,          \* Render.mesh.geometry: a PlaneGeometry or a SphereGeometry
    material,          \* Render.mesh.material
    retired,           \* the materials disposed of so far
    trace,             \* the handler that ran last, its inputs, and the totals of
                       \* the inputs handled so far
    renderLoop,        \* Render.frame, the frame of the debounced resize, and the
                       \* animation-frame callbacks that are pending
    player,            \* Store.url, Store.playback, document.hidden, the video's
                       \* readyState and current frame, and whether detect() is pending
    log,               \* what the handler that ran last rendered and marked, and
                       \* the handler bodies run since the last display refresh
    shader,            \* one fragment: the program, its inputs and its outputs
    io,                \* the call of the byte reader made last: its caller, its
                       \* arguments, the fetches it issued and what it returned
    controls,          \* Controls: the disabled attribute of the layout and of the
                       \* resolution buttons, and the input handled last
    pointer,           \* Render.isDragging, dragLastX and dragLastY, whether a
                       \* pointer is down, and the pointer event handled last
    repo,              \* a Repository: its state, its subscribers, and the callback
                       \* invocations of the operation made last
    loads              \* the videos loaded so far, the video whose metadata the
                       \* element holds, and the detect() calls that are pending

storeVars == <<name, file, layout, projection, videoTracks, videoWidth, videoHeight>>
detectVars == <<pc, layoutResult, resolutionResult, projectionResult>>
scanVars == <<meta, stack, found, lastIter>>
vintVars == <<vintArgs, vintResult>>
settingVars == <<view, resolution, eye, calibration, canvas>>
renderVars ==
    <<camera, perspCamera, orthoCamera, yaw, pitch, projHFovDeg, projVFovDeg,
      geometry, material, retired, trace>>
renderVarsButTrace ==
    <<camera, perspCamera, orthoCamera, yaw, pitch, projHFovDeg, projVFovDeg,
      geometry, material, retired>>
loopVars == <<renderLoop, player, log>>
shaderVars == <<shader>>
appVars == <<io, controls, pointer, repo, loads>>
vars ==
    <<storeVars, detectVars, scanVars, vintVars, settingVars, renderVars, loopVars,
      shaderVars, appVars>>

Range(f) == {f[i] : i \in DOMAIN f}

----------------------------------------------------------------------------
(* JavaScript string primitives *)

LowerLetters ==
    <<"a","b","c","d","e","f","g","h","i","j","k","l","m",
      "n","o","p","q","r","s","t","u","v","w","x","y","z">>
UpperLetters ==
    <<"A","B","C","D","E","F","G","H","I","J","K","L","M",
      "N","O","P","Q","R","S","T","U","V","W","X","Y","Z">>

\* String.prototype.toUpperCase on one ASCII character
UpperOf(c) ==
    IF \E i \in DOMAIN LowerLetters : LowerLetters[i] = c
    THEN UpperLetters[CHOOSE i \in DOMAIN LowerLetters : LowerLetters[i] = c]
    ELSE c

\* String.prototype.toLowerCase on one ASCII character
LowerOf(c) ==
    IF \E i \in DOMAIN UpperLetters : UpperLetters[i] = c
    THEN LowerLetters[CHOOSE i \in DOMAIN UpperLetters : UpperLetters[i] = c]
    ELSE c

toUpperCase(str) == [i \in 1..Len(str) |-> UpperOf(str[i])]
toLowerCase(str) == [i \in 1..Len(str) |-> LowerOf(str[i])]

\* String.prototype.includes: sub occurs in str, compared character by character
includes(str, sub) ==
    \E i \in 0..(Len(str) - Len(sub)) :
        \A j \in 1..Len(sub) : str[i + j] = sub[j]

\* String.prototype.endsWith
endsWith(str, suffix) ==
    /\ Len(suffix) <= Len(str)
    /\ \A j \in 1..Len(suffix) : str[Len(str) - Len(suffix) + j] = suffix[j]

\* Array.prototype.some over a keyword list
some(list, str) == \E k \in DOMAIN list : includes(str, list[k])

----------------------------------------------------------------------------
(* Detector's static tables *)

METHOD ==
    [METADATA |-> "metadata", FILENAME |-> "filename",
     RESOLUTION |-> "resolution", DEFAULT |-> "default"]

SBS_KEYWORDS ==
    << <<"S","B","S">>,
       <<"H","S","B","S">>,
       <<"F","S","B","S">>,
       <<"H","a","l","f","-","S","B","S">>,
       <<"S","i","d","e","-","b","y","-","S","i","d","e">>,
       <<"3","D",".","S","B","S">>,
       <<"3","D","-","S","B","S">>,
       <<"s","b","s","3","d">>,
       <<"S","B","S","3","D">> >>

OU_KEYWORDS ==
    << <<"O","U">>,
       <<"H","O","U">>,
       <<"F","O","U">>,
       <<"H","a","l","f","-","O","U">>,
       <<"O","v","e","r","-","U","n","d","e","r">>,
       <<"T","A","B">>,
       <<"H","T","A","B">>,
       <<"T","o","p","-","B","o","t","t","o","m">>,
       <<"T","o","p","B","o","t","t","o","m">>,
       <<"T","-","B">> >>

VR360_TOKENS ==
    << <<"v","r","3","6","0">>,
       <<"3","6","0","v","r">>,
       <<"v","r","-","3","6","0">>,
       <<"v","r","_","3","6","0">>,
       <<"3","6","0","v","i","d","e","o">>,
       <<"v","i","d","e","o","3","6","0">>,
       <<"3","6","0","p","a","n","o">>,
       <<"p","a","n","o","3","6","0">>,
       <<"3","6","0","p","h","o","t","o">>,
       <<"p","h","o","t","o","3","6","0">>,
       <<"3","6","0","3","d">>,
       <<"3","d","3","6","0">>,
       <<"s","t","e","r","e","o","3","6","0">>,
       <<"3","6","0","s","t","e","r","e","o">>,
       <<"m","o","n","o","3","6","0">>,
       <<"3","6","0","m","o","n","o">>,
       <<"3","6","0","-","d","e","g">>,
       <<"3","6","0","d","e","g">>,
       <<"3","6","0","-","d","e","g","r","e","e">>,
       <<"3","6","0">> >>

VR180_TOKENS ==
    << <<"v","r","1","8","0">>,
       <<"1","8","0","v","r">>,
       <<"v","r","-","1","8","0">>,
       <<"v","r","_","1","8","0">>,
       <<"1","8","0","3","d">>,
       <<"3","d","1","8","0">>,
       <<"v","r","1","8","0","3","d">>,
       <<"3","d","v","r","1","8","0">>,
       <<"s","t","e","r","e","o","1","8","0">>,
       <<"1","8","0","s","t","e","r","e","o">>,
       <<"1","8","0","p","a","n","o">>,
       <<"p","a","n","o","1","8","0">>,
       <<"f","r","o","n","t","1","8","0">>,
       <<"f","1","8","0">>,
       <<"1","8","0","-","d","e","g">>,
       <<"1","8","0","d","e","g">>,
       <<"1","8","0","-","d","e","g","r","e","e">>,
       <<"1","8","0","x","1","8","0">>,
       <<"1","8","0">> >>

\* The "not yet computed" / null result
NoResult == [value |-> "null", method |-> "null"]

----------------------------------------------------------------------------
(* Aspect-ratio comparisons: w / h against the decimal num / den.  A zero   *)
(* height gives Infinity (w > 0) or NaN (w = 0), as the JavaScript division *)
(* does; every comparison with NaN is false.                                *)

AspectGE(w, h, num, den) == IF h = 0 THEN w > 0 ELSE w * den >= num * h
AspectLE(w, h, num, den) == IF h = 0 THEN FALSE ELSE w * den <= num * h
AspectLT(w, h, num, den) == IF h = 0 THEN FALSE ELSE w * den < num * h

----------------------------------------------------------------------------
(* EBML variable-length integers.  A buffer is a sequence of bytes 0..255;  *)
(* dv.getUint8(pos) is buf[pos + 1].  The bitwise operators of JavaScript    *)
(* work on 32-bit two's-complement integers.                                *)

\* (value << 8) | byte: the low 24 bits of value move up, bit 31 is the sign
shl8or(value, byte) ==
    LET low24 == value % 16777216
    IN  IF low24 >= 8388608
        THEN (low24 - 16777216) * 256 + byte
        ELSE low24 * 256 + byte

\* while (width <= 8 && (first & mask) === 0) { mask >>= 1; width++; }
RECURSIVE vintScan(_, _, _)
vintScan(first, mask, width) ==
    IF width <= 8 /\ (first \div mask) % 2 = 0
    THEN vintScan(first, mask \div 2, width + 1)
    ELSE [mask |-> mask, width |-> width]

\* for (let i = 1; i < width; i++) value = (value << 8) | dv.getUint8(pos + i)
RECURSIVE vintFold(_, _, _, _, _)
vintFold(buf, pos, i, width, value) ==
    IF i < width
    THEN vintFold(buf, pos, i + 1, width, shl8or(value, buf[pos + i + 1]))
    ELSE value

VintNull == [st |-> "null", value |-> 0, width |-> 0]
VintThrow == [st |-> "throw", value |-> 0, width |-> 0]

\* A negative position passes the pos >= len test and dv.getUint8 raises a
\* RangeError.
readVint(buf, pos, forId) ==
    IF pos >= Len(buf) THEN VintNull
    ELSE IF pos < 0 THEN VintThrow
    ELSE LET first == buf[pos + 1]
             mw    == vintScan(first, 128, 1)
         IN  IF mw.width > 8 \/ pos + mw.width > Len(buf)
             THEN VintNull
             ELSE [st    |-> "ok",
                   value |-> vintFold(buf, pos, 1, mw.width,
                                      IF forId THEN first ELSE first - mw.mask),
                   width |-> mw.width]

----------------------------------------------------------------------------
(* Store.get(): the snapshot the detector reads *)

StoreGet ==
    [name |-> name, file |-> file, layout |-> layout, projection |-> projection,
     video |-> [videoTracks |-> videoTracks, videoWidth |-> videoWidth,
                videoHeight |-> videoHeight]]

----------------------------------------------------------------------------
(* Step 1: detectLayout *)

left_right == <<"l","e","f","t","_","r","i","g","h","t">>
right_left == <<"r","i","g","h","t","_","l","e","f","t">>
top_bottom == <<"t","o","p","_","b","o","t","t","o","m">>
bottom_top == <<"b","o","t","t","o","m","_","t","o","p">>

\* track.stereoMode?.toLowerCase() || "" ; an undefined stereoMode is the
\* empty sequence, which lower-cases to itself
trackMode(track) == toLowerCase(track.stereoMode)

trackIsSbs(track) ==
    includes(trackMode(track), left_right) \/ includes(trackMode(track), right_left)
trackIsOu(track) ==
    includes(trackMode(track), top_bottom) \/ includes(trackMode(track), bottom_top)

\* Method 1: the for-of loop over the tracks returns at the first track whose
\* mode carries a flag; left_right/right_left is tested before top_bottom.
layoutFromTracks(tracks) ==
    IF \E i \in DOMAIN tracks : trackIsSbs(tracks[i]) \/ trackIsOu(tracks[i])
    THEN LET first == CHOOSE i \in DOMAIN tracks :
                          /\ trackIsSbs(tracks[i]) \/ trackIsOu(tracks[i])
                          /\ \A j \in 1..(i - 1) :
                                 ~(trackIsSbs(tracks[j]) \/ trackIsOu(tracks[j]))
         IN  [value |-> IF trackIsSbs(tracks[first]) THEN "sbs" ELSE "ou",
              method |-> METHOD.METADATA]
    ELSE NoResult

\* Method 2: the name is upper-cased, the keywords are used as written
layoutFromName(fname) ==
    LET nameUpper == toUpperCase(fname)
    IN  IF some(SBS_KEYWORDS, nameUpper)
        THEN [value |-> "sbs", method |-> METHOD.FILENAME]
        ELSE IF some(OU_KEYWORDS, nameUpper)
        THEN [value |-> "ou", method |-> METHOD.FILENAME]
        ELSE NoResult

\* Method 3: aspect ratio >= 2.8 is sbs, <= 1.12 is ou
layoutFromAspect_Strict(w, h) ==
    IF ~AspectLE(w, h, 28, 10) /\ (h # 0 \/ w > 0)
    THEN [value |-> "sbs", method |-> METHOD.RESOLUTION]
    ELSE IF AspectLT(w, h, 112, 100)
    THEN [value |-> "ou", method |-> METHOD.RESOLUTION]
    ELSE NoResult

layoutFromAspect(w, h) ==
    IF AspectGE(w, h, 28, 10)
    THEN [value |-> "sbs", method |-> METHOD.RESOLUTION]
    ELSE IF AspectLE(w, h, 112, 100)
    THEN [value |-> "ou", method |-> METHOD.RESOLUTION]
    ELSE NoResult

detectLayout_FilenameFirst(s) ==
    IF layoutFromName(s.name) # NoResult THEN layoutFromName(s.name)
    ELSE IF layoutFromTracks(s.video.videoTracks) # NoResult
    THEN layoutFromTracks(s.video.videoTracks)
    ELSE IF layoutFromAspect(s.video.videoWidth, s.video.videoHeight) # NoResult
    THEN layoutFromAspect(s.video.videoWidth, s.video.videoHeight)
    ELSE [value |-> s.layout, method |-> METHOD.DEFAULT]

detectLayout(s) ==
    IF layoutFromTracks(s.video.videoTracks) # NoResult
    THEN layoutFromTracks(s.video.videoTracks)
    ELSE IF layoutFromName(s.name) # NoResult THEN layoutFromName(s.name)
    ELSE IF layoutFromAspect(s.video.videoWidth, s.video.videoHeight) # NoResult
    THEN layoutFromAspect(s.video.videoWidth, s.video.videoHeight)
    \* Method 4: default to the current value
    ELSE [value |-> s.layout, method |-> METHOD.DEFAULT]

----------------------------------------------------------------------------
(* Step 2: detectResolution *)

\* a detectResolution whose sbs threshold is the one of the layout inference
detectResolution_LayoutThreshold(s, lay) ==
    IF lay = "sbs"
    THEN [value |-> IF AspectGE(s.video.videoWidth, s.video.videoHeight, 112, 100)
                    THEN "full" ELSE "half",
          method |-> METHOD.RESOLUTION]
    ELSE [value |-> IF AspectLT(s.video.videoWidth, s.video.videoHeight, 1, 1)
                    THEN "full" ELSE "half",
          method |-> METHOD.RESOLUTION]

detectResolution(s, lay) ==
    IF lay = "sbs"
    THEN [value |-> IF AspectGE(s.video.videoWidth, s.video.videoHeight, 33, 10)
                    THEN "full" ELSE "half",
          method |-> METHOD.RESOLUTION]
    ELSE [value |-> IF AspectLT(s.video.videoWidth, s.video.videoHeight, 1, 1)
                    THEN "full" ELSE "half",
          method |-> METHOD.RESOLUTION]

\* detect(): this.detectResolution(s, layoutResult.value)
resolutionOfDetect_StoreLayout(s, lr) == detectResolution(s, s.layout)

resolutionOfDetect(s, lr) == detectResolution(s, lr.value)

----------------------------------------------------------------------------
(* detect(): the two synchronous steps *)

DetectLayoutStep ==
    /\ pc = "start"
    /\ layoutResult' = detectLayout(StoreGet)
    /\ pc' = "layout"
    /\ UNCHANGED <<appVars, shaderVars, loopVars, storeVars, settingVars, renderVars, resolutionResult, projectionResult, scanVars, vintVars>>

DetectResolutionStep ==
    /\ pc = "layout"
    /\ resolutionResult' = resolutionOfDetect(StoreGet, layoutResult)
    /\ pc' = "resolution"
    /\ UNCHANGED <<appVars, shaderVars, loopVars, storeVars, settingVars, renderVars, layoutResult, projectionResult, scanVars, vintVars>>

----------------------------------------------------------------------------
(* The byte source.  Store.file is null, a File/Blob (an object with a      *)
(* slice method), or anything else; a File holds its bytes and, for an      *)
(* MP4/MOV, the XMP packet found in them.  A read of a File settles with    *)
(* its bytes or rejects.                                                    *)

MP4_CHUNK == 16777216
MKV_CHUNK == 4194304

Min(a, b) == IF a <= b THEN a ELSE b

\* Blob.prototype.slice(start, end), for 0 <= start
slice(bytes, start, end) == SubSeq(bytes, start + 1, Min(end, Len(bytes)))

\* _readBytes(fileOrUrl, start, length): how the returned promise settles
readBytes(f, start, length) ==
    IF f.kind = "file"
    THEN IF f.readable
         THEN [st |-> "bytes", bytes |-> slice(f.bytes, start, start + length)]
         ELSE [st |-> "rejected", bytes |-> <<>>]
    ELSE [st |-> "null", bytes |-> <<>>]

----------------------------------------------------------------------------
(* _classifyFromXmp.  The packet is given by what the two regular           *)
(* expressions capture: for each of the four places a value can stand in    *)
(* (element or attribute, GSpherical or GPano namespace) the text captured  *)
(* for each tag, the empty text where nothing matches.                      *)

Digits == <<"0","1","2","3","4","5","6","7","8","9">>

IsDigit(c) == \E d \in DOMAIN Digits : Digits[d] = c
DigitOf(c) == (CHOOSE d \in DOMAIN Digits : Digits[d] = c) - 1

\* String.prototype.trim, for texts padded with spaces
trim(str) ==
    LET inked == {i \in DOMAIN str : str[i] # " "}
    IN  IF inked = {} THEN <<>>
        ELSE SubSeq(str, CHOOSE i \in inked : \A j \in inked : i <= j,
                         CHOOSE i \in inked : \A j \in inked : j <= i)

NaN == [nan |-> TRUE, n |-> 0]

\* parseFloat on an unsigned decimal integer followed by anything: the value
\* of the longest prefix of digits, NaN when the text starts with none
RECURSIVE parseDigits(_, _, _)
parseDigits(str, i, acc) ==
    IF i <= Len(str) /\ IsDigit(str[i])
    THEN parseDigits(str, i + 1, acc * 10 + DigitOf(str[i]))
    ELSE acc

parseFloat(str) ==
    IF str # <<>> /\ IsDigit(str[1])
    THEN [nan |-> FALSE, n |-> parseDigits(str, 1, 0)]
    ELSE NaN

\* const toNum = (v) => (v ? parseFloat(v) : NaN)
toNum(v) == IF v = <<>> THEN NaN ELSE parseFloat(v)

\* a || b || c || d over the trimmed captures, in the order of the places
RECURSIVE firstTruthy(_, _, _, _)
firstTruthy(xmp, places, tag, i) ==
    IF i > Len(places) THEN <<>>
    ELSE IF trim(xmp[places[i]][tag]) # <<>> THEN trim(xmp[places[i]][tag])
    ELSE firstTruthy(xmp, places, tag, i + 1)

\* get(GSpherical) || get(GPano) || getAttr(GPano) || getAttr(GSpherical)
ProjectionTypePlaces == <<"GSpherical:element", "GPano:element", "GPano:attr", "GSpherical:attr">>
\* get(GPano) || get(GSpherical) || getAttr(GPano) || getAttr(GSpherical)
PixelPlaces == <<"GPano:element", "GSpherical:element", "GPano:attr", "GSpherical:attr">>

equirectangular == <<"e","q","u","i","r","e","c","t","a","n","g","u","l","a","r">>

ratioInRange_HeightOnly(fullW, fullH, cropW, cropH) ==
    /\ cropH.n * 100 >= 95 * fullH.n
    /\ cropH.n * 100 <= 105 * fullH.n

\* wRatio >= 0.49 && wRatio <= 0.51 && hRatio >= 0.95 && hRatio <= 1.05
ratioInRange(fullW, fullH, cropW, cropH) ==
    /\ cropW.n * 100 >= 49 * fullW.n
    /\ cropW.n * 100 <= 51 * fullW.n
    /\ cropH.n * 100 >= 95 * fullH.n
    /\ cropH.n * 100 <= 105 * fullH.n

classifyFromXmp(xmp) ==
    LET proj  == firstTruthy(xmp, ProjectionTypePlaces, "ProjectionType", 1)
        fullW == toNum(firstTruthy(xmp, PixelPlaces, "FullPanoWidthPixels", 1))
        fullH == toNum(firstTruthy(xmp, PixelPlaces, "FullPanoHeightPixels", 1))
        cropW == toNum(firstTruthy(xmp, PixelPlaces, "CroppedAreaImageWidthPixels", 1))
        cropH == toNum(firstTruthy(xmp, PixelPlaces, "CroppedAreaImageHeightPixels", 1))
    IN  IF proj = <<>> THEN "null"
        ELSE IF toLowerCase(proj) # equirectangular THEN "null"
        ELSE IF /\ ~fullW.nan /\ ~fullH.nan /\ ~cropW.nan /\ ~cropH.nan
                /\ fullW.n > 0 /\ fullH.n > 0
                /\ ratioInRange(fullW, fullH, cropW, cropH)
        THEN "vr180"
        ELSE "vr360"

\* _extractXmpFromMp4 after the read: the packet between the two markers, or
\* null when either marker is missing from the chunk
extractXmp(f) == IF f.xmpStart /\ f.xmpEnd THEN "packet" ELSE "null"

----------------------------------------------------------------------------
(* _readMkvProjectionType: the EBML walker.  stack holds one frame per loop *)
(* that is running: the top-level loop, seekWithin over Tracks, seekWithin  *)
(* over a TrackEntry, the loop over a Video.  A frame's pos is the position *)
(* at the head of its loop; while a nested loop runs, cur and pend hold the *)
(* position after the element header and the declared size, which is added  *)
(* when the nested loop returns.                                            *)

ID_TRACKS == 374648427
ID_TRACK_ENTRY == 174
ID_VIDEO == 224
ID_PROJECTION_TYPE == 30321

ScanBuf == slice(file.bytes, 0, 0 + MKV_CHUNK)

Frame(loop, start, size) ==
    [loop |-> loop, pos |-> start, cur |-> 0, pend |-> 0, end |-> start + size]

TargetOf(loop) ==
    CASE loop = "top" -> ID_TRACKS
      [] loop = "tracks" -> ID_TRACK_ENTRY
      [] loop = "entry" -> ID_VIDEO
      [] OTHER -> ID_PROJECTION_TYPE

InnerOf(loop) ==
    CASE loop = "top" -> "tracks"
      [] loop = "tracks" -> "entry"
      [] OTHER -> "video"

Innermost == stack[Len(stack)]

\* while (p < end && found === null)
LoopRuns(f) == f.pos < f.end /\ ~found.set

\* const id = readVint(p, true); p += id.width;
\* const sz = readVint(p, false); p += sz.width;
Header(f) ==
    LET id == readVint(ScanBuf, f.pos, TRUE)
        sz == IF id.st = "ok" THEN readVint(ScanBuf, f.pos + id.width, FALSE) ELSE id
    IN  [st   |-> IF id.st = "throw" THEN "throw"
                  ELSE IF id.st = "null" \/ sz.st = "null" THEN "break"
                  ELSE "ok",
         id   |-> id.value,
         cur  |-> f.pos + id.width + sz.width,
         size |-> sz.value]

\* for (let i = 0; i < sz2.value; i++) val = (val << 8) | dv.getUint8(p + i)
RECURSIVE readUint(_, _, _, _, _)
readUint(buf, p, i, size, val) ==
    IF i < size THEN readUint(buf, p, i + 1, size, shl8or(val, buf[p + i + 1])) ELSE val

\* dv.getUint8 raises a RangeError at the first byte past the buffer
readUintThrows(buf, p, size) == size > 0 /\ p + size > Len(buf)

\* the loop condition fails, or a header cannot be read and the loop breaks
LoopEnds(f) == IF LoopRuns(f) THEN Header(f).st = "break" ELSE TRUE

Completed(f, after) ==
    [loop |-> f.loop, before |-> f.pos, after |-> after, turn |-> 1 - lastIter.turn]

SetInnermost(f) == [stack EXCEPT ![Len(stack)] = f]

\* if (projType === 1) return "vr360"; return null;
metaOfProjType(fnd) == IF fnd.set /\ fnd.val = 1 THEN "vr360" ELSE "null"

\* An element that is not the one looked for is skipped by its declared size.
ScanSkip ==
    /\ pc = "scan"
    /\ LoopRuns(Innermost)
    /\ LET h == Header(Innermost)
       IN  /\ h.st = "ok"
           /\ h.id # TargetOf(Innermost.loop)
           /\ stack' = SetInnermost([Innermost EXCEPT !.pos = h.cur + h.size])
           /\ lastIter' = Completed(Innermost, h.cur + h.size)
    /\ UNCHANGED <<appVars, shaderVars, loopVars, storeVars, settingVars, renderVars, detectVars, meta, found, vintVars>>

\* Tracks, TrackEntry, Video: the callback starts the nested loop.
ScanEnter ==
    /\ pc = "scan"
    /\ LoopRuns(Innermost)
    /\ Innermost.loop # "video"
    /\ LET h == Header(Innermost)
       IN  /\ h.st = "ok"
           /\ h.id = TargetOf(Innermost.loop)
           /\ stack' = Append(SetInnermost([Innermost EXCEPT !.cur = h.cur, !.pend = h.size]),
                              Frame(InnerOf(Innermost.loop), h.cur, h.size))
    /\ UNCHANGED <<appVars, shaderVars, loopVars, storeVars, settingVars, renderVars, detectVars, meta, found, lastIter, vintVars>>

\* ProjectionType inside Video: the value is read and the loops wind up.
ScanProjectionType ==
    /\ pc = "scan"
    /\ LoopRuns(Innermost)
    /\ Innermost.loop = "video"
    /\ LET h == Header(Innermost)
       IN  /\ h.st = "ok"
           /\ h.id = ID_PROJECTION_TYPE
           /\ ~readUintThrows(ScanBuf, h.cur, h.size)
           /\ found' = [set |-> TRUE, val |-> readUint(ScanBuf, h.cur, 0, h.size, 0)]
           /\ stack' = SetInnermost([Innermost EXCEPT !.pos = h.cur + h.size])
           /\ lastIter' = Completed(Innermost, h.cur + h.size)
    /\ UNCHANGED <<appVars, shaderVars, loopVars, storeVars, settingVars, renderVars, detectVars, meta, vintVars>>

\* A nested loop ends (its condition fails or a header cannot be read); the
\* loop that called it adds the declared size and goes on.
ScanLeave ==
    /\ pc = "scan"
    /\ Len(stack) > 1
    /\ LoopEnds(Innermost)
    /\ LET outer == stack[Len(stack) - 1]
       IN  /\ stack' = [i \in 1..(Len(stack) - 1) |->
                           IF i = Len(stack) - 1
                           THEN [outer EXCEPT !.pos = outer.cur + outer.pend]
                           ELSE stack[i]]
           /\ lastIter' = Completed(outer, outer.cur + outer.pend)
    /\ UNCHANGED <<appVars, shaderVars, loopVars, storeVars, settingVars, renderVars, detectVars, meta, found, vintVars>>

\* The top-level loop ends: return found, and _detectProjectionFromMetadata
\* maps it.
ScanReturn ==
    /\ pc = "scan"
    /\ Len(stack) = 1
    /\ LoopEnds(Innermost)
    /\ meta' = metaOfProjType(found)
    /\ stack' = <<>>
    /\ pc' = "filename"
    /\ UNCHANGED <<appVars, shaderVars, loopVars, storeVars, settingVars, renderVars, layoutResult, resolutionResult, projectionResult,
                   found, lastIter, vintVars>>

\* A RangeError (a read at a negative position, or a ProjectionType value
\* that runs past the buffer) unwinds every loop and is caught by
\* detectProjection.
ScanThrow ==
    /\ pc = "scan"
    /\ LoopRuns(Innermost)
    /\ LET h == Header(Innermost)
       IN  \/ h.st = "throw"
           \/ /\ h.st = "ok"
              /\ Innermost.loop = "video"
              /\ h.id = ID_PROJECTION_TYPE
              /\ readUintThrows(ScanBuf, h.cur, h.size)
    /\ meta' = "null"
    /\ stack' = <<>>
    /\ pc' = "filename"
    /\ UNCHANGED <<appVars, shaderVars, loopVars, storeVars, settingVars, renderVars, layoutResult, resolutionResult, projectionResult,
                   found, lastIter, vintVars>>

----------------------------------------------------------------------------
(* Step 3: detectProjection *)

dot_mp4 == <<".","m","p","4">>
dot_mov == <<".","m","o","v">>
dot_mkv == <<".","m","k","v">>
dot_webm == <<".","w","e","b","m">>

isMp4OrMov(lower) == endsWith(lower, dot_mp4) \/ endsWith(lower, dot_mov)
isMkvOrWebm(lower) == endsWith(lower, dot_mkv) \/ endsWith(lower, dot_webm)

\* Method 2 and 3: filename tokens, then the current value
projectionFromName_180First(s) ==
    LET lower == toLowerCase(s.name)
    IN  IF some(VR180_TOKENS, lower)
        THEN [value |-> "vr180", method |-> METHOD.FILENAME]
        ELSE IF some(VR360_TOKENS, lower)
        THEN [value |-> "vr360", method |-> METHOD.FILENAME]
        ELSE [value |-> s.projection, method |-> METHOD.DEFAULT]

projectionFromName(s) ==
    LET lower == toLowerCase(s.name)
    IN  IF some(VR360_TOKENS, lower)
        THEN [value |-> "vr360", method |-> METHOD.FILENAME]
        ELSE IF some(VR180_TOKENS, lower)
        THEN [value |-> "vr180", method |-> METHOD.FILENAME]
        ELSE [value |-> s.projection, method |-> METHOD.DEFAULT]

\* detectProjection after its await
projectionOf(m, s) ==
    IF m # "null" THEN [value |-> m, method |-> METHOD.METADATA]
    ELSE projectionFromName(s)

\* detectProjection up to the await of the byte read
BeginProjection ==
    /\ pc = "resolution"
    /\ LET lower == toLowerCase(name)
       IN  IF isMp4OrMov(lower) THEN pc' = "readXmp" /\ UNCHANGED meta
           ELSE IF isMkvOrWebm(lower) THEN pc' = "readMkv" /\ UNCHANGED meta
           ELSE pc' = "filename" /\ meta' = "null"
    /\ UNCHANGED <<appVars, shaderVars, loopVars, storeVars, settingVars, renderVars, layoutResult, resolutionResult, projectionResult,
                   stack, found, lastIter, vintVars>>

\* The byte source cannot be read: _readBytes returns null, both extractors
\* return null.
BytesNull ==
    /\ pc \in {"readXmp", "readMkv"}
    /\ readBytes(file, 0, IF pc = "readXmp" THEN MP4_CHUNK ELSE MKV_CHUNK).st = "null"
    /\ meta' = "null"
    /\ pc' = "filename"
    /\ UNCHANGED <<appVars, shaderVars, loopVars, storeVars, settingVars, renderVars, layoutResult, resolutionResult, projectionResult,
                   stack, found, lastIter, vintVars>>

\* The read rejects: the rejection is caught by detectProjection.
BytesRejected ==
    /\ pc \in {"readXmp", "readMkv"}
    /\ readBytes(file, 0, IF pc = "readXmp" THEN MP4_CHUNK ELSE MKV_CHUNK).st = "rejected"
    /\ meta' = "null"
    /\ pc' = "filename"
    /\ UNCHANGED <<appVars, shaderVars, loopVars, storeVars, settingVars, renderVars, layoutResult, resolutionResult, projectionResult,
                   stack, found, lastIter, vintVars>>

\* MP4/MOV: the chunk arrives, the packet is cut out and classified.
XmpArrives ==
    /\ pc = "readXmp"
    /\ readBytes(file, 0, MP4_CHUNK).st = "bytes"
    /\ meta' = IF extractXmp(file) = "null" THEN "null" ELSE classifyFromXmp(file.xmp)
    /\ pc' = "filename"
    /\ UNCHANGED <<appVars, shaderVars, loopVars, storeVars, settingVars, renderVars, layoutResult, resolutionResult, projectionResult,
                   stack, found, lastIter, vintVars>>

\* MKV/WebM: the chunk arrives and the top-level loop starts at offset 0.
MkvArrives ==
    /\ pc = "readMkv"
    /\ readBytes(file, 0, MKV_CHUNK).st = "bytes"
    /\ stack' = <<Frame("top", 0, Len(ScanBuf))>>
    /\ pc' = "scan"
    /\ UNCHANGED <<appVars, shaderVars, loopVars, storeVars, settingVars, renderVars, layoutResult, resolutionResult, projectionResult,
                   meta, found, lastIter, vintVars>>

\* The rest of detectProjection, and detect() resolves.
ResolveProjection ==
    /\ pc = "filename"
    /\ projectionResult' = projectionOf(meta, StoreGet)
    /\ pc' = "resolved"
    /\ UNCHANGED <<appVars, shaderVars, loopVars, storeVars, settingVars, renderVars, layoutResult, resolutionResult, scanVars, vintVars>>

----------------------------------------------------------------------------
(* The renderer's numbers.  Angles that the code holds in degrees are whole  *)
(* hundredths of a degree, angles that it holds in radians are whole         *)
(* milliradians, and a ratio is the pair of its terms.  Math.tan is a table  *)
(* of the tangent, times 1000, at every half degree up to 89.5 and at five   *)
(* more angles below 90; Math.atan is the largest angle of the table whose   *)
(* tangent does not exceed the argument, so that both are monotone and       *)
(* atan(tan(a)) = a on the table.  NaN is a value apart that every           *)
(* arithmetic operation and Math.min / Math.max hand on.                     *)

Deg == 100

NaNum == -999999999

isNaN(x) == x = NaNum

\* Math.min, Math.max
mathMin(a, b) == IF isNaN(a) \/ isNaN(b) THEN NaNum ELSE IF a < b THEN a ELSE b
mathMax(a, b) == IF isNaN(a) \/ isNaN(b) THEN NaNum ELSE IF a > b THEN a ELSE b

\* a + b, a - b and -a
plus(a, b) == IF isNaN(a) \/ isNaN(b) THEN NaNum ELSE a + b
minus(a, b) == IF isNaN(a) \/ isNaN(b) THEN NaNum ELSE a - b
negate(a) == IF isNaN(a) THEN NaNum ELSE 0 - a

\* a remainder that stops at the modulus instead of wrapping
jsMod_Saturate(a, m) ==
    IF isNaN(a) THEN NaNum ELSE IF a >= m THEN m - 1 ELSE IF a <= 0 - m THEN 1 - m ELSE a

\* a % m: the remainder takes the sign of the dividend
jsMod(a, m) == IF isNaN(a) THEN NaNum ELSE IF a >= 0 THEN a % m ELSE 0 - ((0 - a) % m)

\* 2 * Math.PI, in milliradians
TwoPi == 6283

\* (deg / 2) * (Math.PI / 180): half an angle of hundredths of a degree, in
\* milliradians, rounded towards zero
halfToRad(cd) ==
    IF isNaN(cd) THEN NaNum
    ELSE IF cd >= 0 THEN (cd * 17453) \div 200000
    ELSE 0 - (((0 - cd) * 17453) \div 200000)

TanAngles ==
    <<
     50, 100, 150, 200, 250, 300, 350, 400, 450, 500,
     550, 600, 650, 700, 750, 800, 850, 900, 950, 1000,
     1050, 1100, 1150, 1200, 1250, 1300, 1350, 1400, 1450, 1500,
     1550, 1600, 1650, 1700, 1750, 1800, 1850, 1900, 1950, 2000,
     2050, 2100, 2150, 2200, 2250, 2300, 2350, 2400, 2450, 2500,
     2550, 2600, 2650, 2700, 2750, 2800, 2850, 2900, 2950, 3000,
     3050, 3100, 3150, 3200, 3250, 3300, 3350, 3400, 3450, 3500,
     3550, 3600, 3650, 3700, 3750, 3800, 3850, 3900, 3950, 4000,
     4050, 4100, 4150, 4200, 4250, 4300, 4350, 4400, 4450, 4500,
     4550, 4600, 4650, 4700, 4750, 4800, 4850, 4900, 4950, 5000,
     5050, 5100, 5150, 5200, 5250, 5300, 5350, 5400, 5450, 5500,
     5550, 5600, 5650, 5700, 5750, 5800, 5850, 5900, 5950, 6000,
     6050, 6100, 6150, 6200, 6250, 6300, 6350, 6400, 6450, 6500,
     6550, 6600, 6650, 6700, 6750, 6800, 6850, 6900, 6950, 7000,
     7050, 7100, 7150, 7200, 7250, 7300, 7350, 7400, 7450, 7500,
     7550, 7600, 7650, 7700, 7750, 7800, 7850, 7900, 7950, 8000,
     8050, 8100, 8150, 8200, 8250, 8300, 8350, 8400, 8450, 8500,
     8550, 8600, 8650, 8700, 8750, 8800, 8850, 8900, 8950, 8960,
     8970, 8980, 8990, 8995
    >>

TanValues ==
    <<
     9, 17, 26, 35, 44, 52, 61, 70, 79, 87,
     96, 105, 114, 123, 132, 141, 149, 158, 167, 176,
     185, 194, 203, 213, 222, 231, 240, 249, 259, 268,
     277, 287, 296, 306, 315, 325, 335, 344, 354, 364,
     374, 384, 394, 404, 414, 424, 435, 445, 456, 466,
     477, 488, 499, 510, 521, 532, 543, 554, 566, 577,
     589, 601, 613, 625, 637, 649, 662, 675, 687, 700,
     713, 727, 740, 754, 767, 781, 795, 810, 824, 839,
     854, 869, 885, 900, 916, 933, 949, 966, 983, 1000,
     1018, 1036, 1054, 1072, 1091, 1111, 1130, 1150, 1171, 1192,
     1213, 1235, 1257, 1280, 1303, 1327, 1351, 1376, 1402, 1428,
     1455, 1483, 1511, 1540, 1570, 1600, 1632, 1664, 1698, 1732,
     1767, 1804, 1842, 1881, 1921, 1963, 2006, 2050, 2097, 2145,
     2194, 2246, 2300, 2356, 2414, 2475, 2539, 2605, 2675, 2747,
     2824, 2904, 2989, 3078, 3172, 3271, 3376, 3487, 3606, 3732,
     3867, 4011, 4165, 4331, 4511, 4705, 4915, 5145, 5396, 5671,
     5976, 6314, 6691, 7115, 7596, 8144, 8777, 9514, 10385, 11430,
     12706, 14301, 16350, 19081, 22904, 28636, 38188, 57290, 114589, 143237,
     190984, 286478, 572957, 1145915
    >>

\* Math.tan of an angle of 0 .. 89.95 degrees, times 1000
tan(a) ==
    LET i == Cardinality({j \in DOMAIN TanAngles : TanAngles[j] <= a})
    IN  IF i = 0 THEN 0 ELSE TanValues[i]

\* Math.atan of a non-negative tangent given times 1000
atan(x) ==
    LET i == Cardinality({j \in DOMAIN TanValues : TanValues[j] <= x})
    IN  IF i = 0 THEN 0 ELSE TanAngles[i]

\* Utils.currentAspect: cw && ch ? cw / ch : 16 / 9
currentAspect(cv) ==
    IF cv.clientWidth # 0 /\ cv.clientHeight # 0
    THEN [w |-> cv.clientWidth, h |-> cv.clientHeight]
    ELSE [w |-> 16, h |-> 9]

\* Utils.vFovDegToHFovDeg: 2 * atan(tan(vFov / 2) * aspect)
vFovDegToHFovDeg(vFovDeg, aspect) ==
    IF isNaN(vFovDeg) THEN NaNum
    ELSE 2 * atan((tan(vFovDeg \div 2) * aspect.w) \div aspect.h)

\* Utils.hFovDegToVFovDeg: 2 * atan(tan(hFov / 2) / aspect)
hFovDegToVFovDeg(hFovDeg, aspect) ==
    IF isNaN(hFovDeg) THEN NaNum
    ELSE 2 * atan((tan(hFovDeg \div 2) * aspect.h) \div aspect.w)

----------------------------------------------------------------------------
(* Utils.clampFov and Utils.clampYawPitch *)

\* a clamp without the upper bound
clampFov_NoCeiling(vFov, args) ==
    LET vFromH == hFovDegToVFovDeg(mathMax(1 * Deg, minus(args.projHFovDeg, 1 * Deg)),
                                   args.aspect)
        clamped == IF args.projHFovDeg # 0 /\ args.projHFovDeg = 180 * Deg
                   THEN mathMin(vFov, vFromH)
                   ELSE vFov
    IN  mathMax(args.min, clamped)

clampFov(vFov, args) ==
    LET vMax == mathMin(args.max, minus(args.projVFovDeg, 1 * Deg))
        vFromH == hFovDegToVFovDeg(mathMax(1 * Deg, minus(args.projHFovDeg, 1 * Deg)),
                                   args.aspect)
        clamped == IF args.projHFovDeg # 0 /\ args.projHFovDeg = 180 * Deg
                   THEN mathMin(vFov, vFromH)
                   ELSE vFov
    IN  mathMax(args.min, mathMin(vMax, clamped))

\* a clamp that damps the pitch instead of limiting it
clampYawPitch_Damped(yaw_, pitch_, args) ==
    [yaw |-> jsMod(yaw_, TwoPi),
     pitch |-> IF isNaN(pitch_) THEN NaNum ELSE pitch_ \div 2]

clampYawPitch(yaw_, pitch_, args) ==
    LET pitchLimit == halfToRad(minus(args.projVFovDeg, args.currentVFovDeg))
        newPitch == mathMax(negate(pitchLimit), mathMin(pitchLimit, pitch_))
        yawLimit == halfToRad(minus(args.projHFovDeg, args.currentHFovDeg))
        newYaw == IF args.projHFovDeg = 180 * Deg
                  THEN mathMax(negate(yawLimit), mathMin(yawLimit, yaw_))
                  ELSE jsMod(yaw_, TwoPi)
    IN  [yaw |-> newYaw, pitch |-> newPitch]

----------------------------------------------------------------------------
(* Render: the cameras, the orientation and the clamp pass.  The operators   *)
(* take and return the fields of the Render object as one record, so that a  *)
(* handler is the composition of the methods it calls.                       *)

\* SETTINGS
VR_VFOV_DEG == 100 * Deg
VR_VFOV_MIN_DEG == 20 * Deg
VR_VFOV_MAX_DEG == 179 * Deg
DRAG_SENSITIVITY == 5
ZOOM_SENSITIVITY == 2

\* the Render object, with the canvas and the video it refers to
This ==
    [camera |-> camera, perspCamera |-> perspCamera, orthoCamera |-> orthoCamera,
     yaw |-> yaw, pitch |-> pitch,
     projHFovDeg |-> projHFovDeg, projVFovDeg |-> projVFovDeg,
     geometry |-> geometry, material |-> material, retired |-> retired,
     canvas |-> canvas,
     video |-> [videoWidth |-> videoWidth, videoHeight |-> videoHeight],
     frame |-> renderLoop.frame, pending |-> renderLoop.pending, ids |-> renderLoop.ids,
     readyState |-> player.readyState, time |-> player.time, uploaded |-> log.uploaded,
     frames |-> <<>>, marks |-> <<>>]

\* window.requestAnimationFrame(callback): the handle returned is t.ids + 1
requestAnimationFrame(t, callback) ==
    [t EXCEPT !.ids = @ + 1,
              !.pending = Append(@, [id |-> t.ids + 1, callback |-> callback])]

\* window.cancelAnimationFrame(id)
cancelAnimationFrame(t, id) ==
    [t EXCEPT !.pending = SelectSeq(@, LAMBDA c : c.id # id)]

start_NoGuard(t) ==
    [requestAnimationFrame(t, "loop") EXCEPT !.frame = t.ids + 1]

\* Render.start
start(t) ==
    IF t.frame # 0 THEN t
    ELSE [requestAnimationFrame(t, "loop") EXCEPT !.frame = t.ids + 1]

\* Render.stop
stop(t) ==
    IF t.frame # 0
    THEN [cancelAnimationFrame(t, t.frame) EXCEPT !.frame = 0]
    ELSE t

\* videoTexture.needsUpdate = true: who set it, the state of the video then,
\* whether the video moved on since the last upload, and the frame that will
\* upload it
Mark(t, by) ==
    [by |-> by, readyState |-> t.readyState, videoWidth |-> t.video.videoWidth,
     advanced |-> t.time # t.uploaded, frame |-> Len(t.frames) + 1]

\* webgl.render(scene, camera): what the frame is drawn from
Snapshot(t) ==
    [geometry |-> t.geometry, camera |-> t.camera, material |-> t.material]

\* Render.renderFrame
renderFrame(t) ==
    LET dirty == t.readyState >= 2 /\ t.video.videoWidth > 0
    IN  [t EXCEPT !.marks = IF dirty THEN Append(@, Mark(t, "renderFrame")) ELSE @,
                  !.uploaded = IF dirty THEN t.time ELSE @,
                  !.frames = Append(@, Snapshot(t))]

\* Render.requestRender
requestRender(t) == IF t.frame = 0 THEN renderFrame(t) ELSE t

\* Render.setVideo: the texture exists since construction
setVideo(t) ==
    [t EXCEPT !.marks = Append(@, Mark(t, "setVideo")), !.uploaded = t.time]

\* Utils.isVrProjection
isVrProjection(p) == p = "vr180" \/ p = "vr360"

\* Render._applyPanAndZoomClamps
applyPanAndZoomClamps(t) ==
    IF t.camera # "perspCamera" THEN t
    ELSE LET aspect == currentAspect(t.canvas)
             clampedFov == clampFov(t.perspCamera.fov,
                               [min |-> VR_VFOV_MIN_DEG, max |-> VR_VFOV_MAX_DEG,
                                projVFovDeg |-> t.projVFovDeg,
                                projHFovDeg |-> t.projHFovDeg, aspect |-> aspect])
             clamped == clampYawPitch(t.yaw, t.pitch,
                            [projHFovDeg |-> t.projHFovDeg, projVFovDeg |-> t.projVFovDeg,
                             currentVFovDeg |-> clampedFov,
                             currentHFovDeg |-> vFovDegToHFovDeg(clampedFov, aspect)])
         IN  [t EXCEPT !.perspCamera.fov = clampedFov,
                       !.yaw = clamped.yaw,
                       !.pitch = clamped.pitch,
                       !.perspCamera.rotation = <<clamped.pitch, clamped.yaw, 0>>]

\* Utils.dragToYawPitch
dragToYawPitch(yaw_, pitch_, dx, dy, sensitivity) ==
    [yaw |-> plus(yaw_, dx * sensitivity), pitch |-> plus(pitch_, dy * sensitivity)]

\* Utils.zoomFromWheel
zoomFromWheel(currentVFovDeg, wheelDeltaY, sensitivity) ==
    plus(currentVFovDeg, wheelDeltaY * sensitivity)

\* Render._applyDragDelta
applyDragDelta(t, dx, dy) ==
    LET res == dragToYawPitch(t.yaw, t.pitch, dx, dy, DRAG_SENSITIVITY)
    IN  applyPanAndZoomClamps([t EXCEPT !.yaw = res.yaw, !.pitch = res.pitch])

\* Render._handleDragMove, for a move of (dx, dy)
handleDragMove(t, dx, dy) == requestRender(applyDragDelta(t, dx, dy))

\* Render._onWheel
onWheel(t, deltaY) ==
    IF t.camera # "perspCamera" THEN t
    ELSE requestRender(applyPanAndZoomClamps(
             [t EXCEPT !.perspCamera.fov = zoomFromWheel(t.perspCamera.fov, deltaY,
                                                        ZOOM_SENSITIVITY)]))

\* Render._createVrGeometry: the spans of the projection, and the sphere
\* THREE.PlaneGeometry(width, height) and THREE.SphereGeometry(.., phiLength,
\* .., thetaLength), the angles in hundredths of a degree
PlaneGeometry(width, height) ==
    [type |-> "PlaneGeometry", width |-> width, height |-> height,
     phiLength |-> 0, thetaLength |-> 0]

SphereGeometry(phiLength, thetaLength) ==
    [type |-> "SphereGeometry", width |-> 0, height |-> 0,
     phiLength |-> phiLength, thetaLength |-> thetaLength]

createVrGeometry(t, p) ==
    LET hFov == IF p = "vr180" THEN 180 * Deg
                ELSE IF p = "vr360" THEN 360 * Deg ELSE 0
        vFov == IF p = "vr180" \/ p = "vr360" THEN 180 * Deg ELSE 0
    IN  [t EXCEPT !.projHFovDeg = hFov,
                  !.projVFovDeg = vFov,
                  !.geometry = SphereGeometry(hFov, 180 * Deg)]

\* the switch that keeps the orientation of the camera
applyProjectionAndViewGeometry_KeepYaw(t, p) ==
    IF isVrProjection(p)
    THEN applyPanAndZoomClamps(
             [createVrGeometry([t EXCEPT !.camera = "perspCamera"], p)
                 EXCEPT !.pitch = 0, !.perspCamera.fov = VR_VFOV_DEG])
    ELSE [t EXCEPT !.camera = "orthoCamera", !.geometry = PlaneGeometry(2, 2),
                   !.orthoCamera.rotation = <<0, 0, 0>>]

\* Render._applyProjectionAndViewGeometry
applyProjectionAndViewGeometry(t, p) ==
    IF isVrProjection(p)
    THEN applyPanAndZoomClamps(
             [createVrGeometry([t EXCEPT !.camera = "perspCamera"], p)
                 EXCEPT !.yaw = 0, !.pitch = 0, !.perspCamera.fov = VR_VFOV_DEG])
    ELSE [t EXCEPT !.camera = "orthoCamera", !.geometry = PlaneGeometry(2, 2),
                   !.orthoCamera.rotation = <<0, 0, 0>>]

----------------------------------------------------------------------------
(* Render: the materials.  A material is its identity (the number of        *)
(* materials made before it), its type tag, its two shaders, its uniforms    *)
(* and its side; a THREE.MeshBasicMaterial has neither shaders nor uniforms. *)

\* Store.get(): the snapshot the renderer reads
StoreState ==
    [projection |-> projection, view |-> view, layout |-> layout,
     resolution |-> resolution, eye |-> eye,
     antiR |-> calibration.antiR, antiG |-> calibration.antiG,
     antiB |-> calibration.antiB, balance |-> calibration.balance,
     convergence |-> calibration.convergence,
     depthCompression |-> calibration.depthCompression]

\* Math.PI, in milliradians
Pi == 3142

\* SETTINGS.VR180_EDGE_FEATHER_U / _V, in hundredths
VR180_EDGE_FEATHER_U == 5
VR180_EDGE_FEATHER_V == 5

\* Render._edgeFeatherForProjection
edgeFeatherForProjection(p) ==
    IF p = "vr180" THEN <<VR180_EDGE_FEATHER_U, VR180_EDGE_FEATHER_V>> ELSE <<0, 0>>

\* the material of Render._initMesh
InitialMaterial ==
    [id |-> 0, type |-> "undefined", vertexShader |-> "none", fragmentShader |-> "none",
     uniforms |-> <<>>, side |-> "DoubleSide"]

\* new THREE.MeshBasicMaterial({ map: this.videoTexture })
MeshBasicMaterial ==
    [id |-> 0, type |-> "undefined", vertexShader |-> "none", fragmentShader |-> "none",
     uniforms |-> <<>>, side |-> "FrontSide"]

ShaderMaterial(vertex, fragment, uniforms) ==
    [id |-> 0, type |-> "undefined", vertexShader |-> vertex, fragmentShader |-> fragment,
     uniforms |-> uniforms, side |-> "FrontSide"]

\* Render._createEquirectMaterial
createEquirectMaterial(s) ==
    ShaderMaterial("EQUIRECT_VERTEX_SHADER", "EQUIRECT_FRAGMENT_SHADER",
        [map |-> "videoTexture",
         u_h_fov_rad |-> IF s.projection = "vr180" THEN Pi ELSE Pi * 2,
         u_v_fov_rad |-> Pi,
         uLayout |-> IF s.layout = "sbs" THEN 0 ELSE 1,
         uIsWatchView |-> s.view = "watch",
         uHalfRes |-> s.resolution = "half",
         uLeftEye |-> s.eye # "right",
         uEdgeFeather |-> <<0, 0>>])

\* Render._createAnaglyphVrMaterial
createAnaglyphVrMaterial(s) ==
    ShaderMaterial("EQUIRECT_VERTEX_SHADER", "ANAGLYPH_FRAGMENT_SHADER",
        [map |-> "videoTexture",
         u_h_fov_rad |-> IF s.projection = "vr180" THEN Pi ELSE Pi * 2,
         u_v_fov_rad |-> Pi,
         uLayout |-> IF s.layout = "sbs" THEN 0 ELSE 1,
         uSwapEyes |-> 0,
         uHalfRes |-> s.resolution = "half",
         uEdgeFeather |-> <<0, 0>>])

\* Render._createAnaglyphFlatMaterial
createAnaglyphFlatMaterial(s) ==
    ShaderMaterial("FLAT_VERTEX_SHADER", "ANAGLYPH_FLAT_FRAGMENT_SHADER",
        [map |-> "videoTexture",
         uLayout |-> IF s.layout = "sbs" THEN 0 ELSE 1,
         uSwapEyes |-> 0])

\* Render._createWatchFlatMaterial
createWatchFlatMaterial(s) ==
    ShaderMaterial("FLAT_VERTEX_SHADER", "WATCH_FLAT_FRAGMENT_SHADER",
        [map |-> "videoTexture",
         uLayout |-> IF s.layout = "sbs" THEN 0 ELSE 1,
         uLeftEye |-> s.eye # "right"])

\* Render._updateMaterialUniforms: every uniform the material has is set anew
updateMaterialUniforms(u, s) ==
    [n \in DOMAIN u |->
        CASE n = "map" -> "videoTexture"
          [] n = "u_h_fov_rad" -> IF s.projection = "vr180" THEN Pi ELSE Pi * 2
          [] n = "u_v_fov_rad" -> Pi
          [] n = "uLayout" -> IF s.layout = "sbs" THEN 0 ELSE 1
          [] n = "uHalfRes" -> s.resolution = "half"
          [] n = "uIsWatchView" -> s.view = "watch"
          [] n = "uLeftEye" -> s.eye # "right"
          [] n = "uEdgeFeather" -> edgeFeatherForProjection(s.projection)
          [] OTHER -> u[n]]

\* the type a view and a projection ask for, with the watch view forgotten
intendedType_NoWatch(s) ==
    IF isVrProjection(s.projection)
    THEN IF s.view = "anaglyph" THEN "vr-anaglyph" ELSE "vr-equirect"
    ELSE IF s.view = "anaglyph" THEN "flat-anaglyph" ELSE "flat-basic"

\* Render.updateMaterial: const intendedType
intendedType(s) ==
    IF isVrProjection(s.projection)
    THEN IF s.view = "anaglyph" THEN "vr-anaglyph" ELSE "vr-equirect"
    ELSE IF s.view = "anaglyph" THEN "flat-anaglyph"
         ELSE IF s.view = "watch" THEN "flat-watch" ELSE "flat-basic"

\* Render.updateMaterial: the material made when the type changes
createMaterial(s) ==
    IF isVrProjection(s.projection)
    THEN IF s.view = "anaglyph" THEN createAnaglyphVrMaterial(s)
         ELSE createEquirectMaterial(s)
    ELSE IF s.view = "anaglyph" THEN createAnaglyphFlatMaterial(s)
         ELSE IF s.view = "watch" THEN createWatchFlatMaterial(s)
         ELSE MeshBasicMaterial

\* an updateMaterial that leaves the side as the material was made
updateMaterial_NoSide(t, s) ==
    LET made == IF t.material.type # intendedType(s)
                THEN [t EXCEPT !.retired = @ \cup {t.material.id},
                               !.material = [createMaterial(s) EXCEPT
                                                !.id = t.material.id + 1,
                                                !.type = intendedType(s)]]
                ELSE t
    IN  [made EXCEPT !.material.uniforms = updateMaterialUniforms(@, s)]

\* an updateMaterial that makes a new material on every call
updateMaterial_Always(t, s) ==
    LET made == [t EXCEPT !.retired = @ \cup {t.material.id},
                          !.material = [createMaterial(s) EXCEPT
                                           !.id = t.material.id + 1,
                                           !.type = intendedType(s)]]
    IN  [made EXCEPT !.material.uniforms = updateMaterialUniforms(@, s),
                     !.material.side = IF isVrProjection(s.projection)
                                       THEN "BackSide" ELSE "FrontSide"]

\* Render.updateMaterial
updateMaterial(t, s) ==
    LET made == IF t.material.type # intendedType(s)
                THEN [t EXCEPT !.retired = @ \cup {t.material.id},
                               !.material = [createMaterial(s) EXCEPT
                                                !.id = t.material.id + 1,
                                                !.type = intendedType(s)]]
                ELSE t
    IN  [made EXCEPT !.material.uniforms = updateMaterialUniforms(@, s),
                     !.material.side = IF isVrProjection(s.projection)
                                       THEN "BackSide" ELSE "FrontSide"]

----------------------------------------------------------------------------
(* Render: resize and the state changers *)

\* Utils.contentDimensions, in half pixels
contentDimensions(video, s) ==
    IF (s.view = "watch" \/ s.view = "anaglyph") /\ ~isVrProjection(s.projection)
    THEN IF s.layout = "sbs"
         THEN [width |-> IF s.resolution = "full" THEN video.videoWidth
                         ELSE 2 * video.videoWidth,
               height |-> 2 * video.videoHeight]
         ELSE [width |-> 2 * video.videoWidth,
               height |-> IF s.resolution = "full" THEN video.videoHeight
                          ELSE 2 * video.videoHeight]
    ELSE [width |-> 2 * video.videoWidth, height |-> 2 * video.videoHeight]

\* Utils.orthoExtents: right is scaleX and top is scaleY, left and bottom are
\* their negatives
orthoExtents(canvasAspect, contentAspect) ==
    IF canvasAspect.w * contentAspect.h > contentAspect.w * canvasAspect.h
    THEN [right |-> [w |-> canvasAspect.w * contentAspect.h,
                     h |-> canvasAspect.h * contentAspect.w],
          top |-> [w |-> 1, h |-> 1]]
    ELSE [right |-> [w |-> 1, h |-> 1],
          top |-> [w |-> contentAspect.w * canvasAspect.h,
                   h |-> contentAspect.h * canvasAspect.w]]

\* Render.resize
resize(t, s) ==
    IF t.canvas.clientWidth = 0 \/ t.canvas.clientHeight = 0
       \/ t.video.videoWidth = 0 \/ t.video.videoHeight = 0
    THEN t
    ELSE IF t.camera = "perspCamera"
    THEN renderFrame(applyPanAndZoomClamps(
             [t EXCEPT !.perspCamera.aspect = [w |-> t.canvas.clientWidth,
                                               h |-> t.canvas.clientHeight]]))
    ELSE LET dims == contentDimensions(t.video, s)
             extents == orthoExtents([w |-> t.canvas.clientWidth,
                                      h |-> t.canvas.clientHeight],
                                     [w |-> dims.width, h |-> dims.height])
         IN  renderFrame([t EXCEPT !.orthoCamera.right = extents.right,
                                   !.orthoCamera.top = extents.top])

\* Render.setProjection
setProjection(t, s) ==
    resize(updateMaterial(applyProjectionAndViewGeometry(t, s.projection), s), s)

\* Render.setView
setView(t, s) ==
    resize(updateMaterial(applyProjectionAndViewGeometry(t, s.projection), s), s)

\* Render.setLayout
setLayout(t, s) == resize(updateMaterial(t, s), s)

\* Render.setResolution
setResolution(t, s) == resize(updateMaterial(t, s), s)

\* the fields of the Render object are assigned
Commit(t) ==
    /\ camera' = t.camera
    /\ perspCamera' = t.perspCamera
    /\ orthoCamera' = t.orthoCamera
    /\ yaw' = t.yaw
    /\ pitch' = t.pitch
    /\ projHFovDeg' = t.projHFovDeg
    /\ projVFovDeg' = t.projVFovDeg
    /\ geometry' = t.geometry
    /\ material' = t.material
    /\ retired' = t.retired

----------------------------------------------------------------------------
(* The fragment shaders of src/js/Shaders.js.  A float is a number of       *)
(* ten-thousandths (One is 1.0); products and quotients are rounded down.   *)
(* A fragment's input is the value of getEquirectUV or the varying vUv, and *)
(* the texture is a frame of two colours, one in each stored half.          *)

\* 1.0
One == 10000

\* a * b and a / b on floats
mul(a, b) == (a * b) \div One
div(a, b) == (a * One) \div b

\* GLSL clamp(x, 0.0, 1.0), abs, mix, smoothstep(0.0, edge, x)
clamp01(x) == IF x < 0 THEN 0 ELSE IF x > One THEN One ELSE x
glAbs(x) == IF x < 0 THEN 0 - x ELSE x
mix(a, b, w) == mul(a, One - w) + mul(b, w)
smoothstep0(edge, x) ==
    LET w == clamp01(div(x, edge))
    IN  mul(mul(w, w), 3 * One - 2 * w)

\* GLSL.EDGE_FEATHER: featherAxis
featherAxis(coord, feather) ==
    IF feather <= 0 THEN One
    ELSE mul(smoothstep0(feather, coord), smoothstep0(feather, One - coord))

\* GLSL.EDGE_FEATHER: edgeFade
edgeFade(uv, feather) == mul(featherAxis(uv[1], feather[1]), featherAxis(uv[2], feather[2]))

\* texture2D(map, uv).rgb on a frame whose first stored half (left or top)
\* has one colour and whose second half has another
texture2D(map, uv) ==
    LET c == IF map.layout = 0 THEN uv[1] ELSE uv[2]
    IN  IF c < One \div 2 THEN map.first ELSE map.second

\* color * fade
scale(color, fade) ==
    [r |-> mul(color.r, fade), g |-> mul(color.g, fade), b |-> mul(color.b, fade)]

\* a sampleUv that takes the first stored half for either eye
equirectSampleUv_LeftOnly(uv, u) ==
    IF ~u.uIsWatchView THEN uv
    ELSE IF u.uLayout = 0
    THEN IF u.uHalfRes THEN <<2500 + mul(uv[1] - 5000, 2500), uv[2]>>
         ELSE <<mul(uv[1], 5000), uv[2]>>
    ELSE IF u.uHalfRes THEN <<uv[1], 2500 + mul(uv[2] - 5000, 2500)>>
         ELSE <<uv[1], mul(uv[2], 5000)>>

\* EQUIRECT_FRAGMENT_SHADER: sampleUv
equirectSampleUv(uv, u) ==
    IF ~u.uIsWatchView THEN uv
    ELSE IF u.uLayout = 0
    THEN IF u.uHalfRes
         THEN <<(IF u.uLeftEye THEN 2500 ELSE 7500) + mul(uv[1] - 5000, 2500), uv[2]>>
         ELSE <<mul(uv[1], 5000) + (IF u.uLeftEye THEN 0 ELSE 5000), uv[2]>>
    ELSE IF u.uHalfRes
         THEN <<uv[1], (IF u.uLeftEye THEN 2500 ELSE 7500) + mul(uv[2] - 5000, 2500)>>
         ELSE <<uv[1], mul(uv[2], 5000) + (IF u.uLeftEye THEN 0 ELSE 5000)>>

\* EQUIRECT_FRAGMENT_SHADER: main
equirectFragment(uv, u, map) ==
    LET sampleUv == equirectSampleUv(uv, u)
    IN  [baseL |-> sampleUv, baseR |-> sampleUv, uvL |-> sampleUv, uvR |-> sampleUv,
         shift |-> 0,
         color |-> scale(texture2D(map, sampleUv), edgeFade(uv, u.uEdgeFeather))]

\* WATCH_FLAT_FRAGMENT_SHADER: main
watchFlatFragment(vUv, u, map) ==
    LET uv == IF u.uLayout = 0
              THEN <<mul(vUv[1], 5000) + (IF u.uLeftEye THEN 0 ELSE 5000), vUv[2]>>
              ELSE <<vUv[1], mul(vUv[2], 5000) + (IF u.uLeftEye THEN 0 ELSE 5000)>>
    IN  [baseL |-> uv, baseR |-> uv, uvL |-> uv, uvR |-> uv, shift |-> 0,
         color |-> texture2D(map, uv)]

\* const float MAX_SHIFT, LUMA_R, LUMA_G, LUMA_B
MAX_SHIFT == 100
LUMA_R == 2126
LUMA_G == 7152
LUMA_B == 722

\* float shift = MAX_SHIFT * ((convergence - 0.5) * 2.0)
shiftOf(u) == mul(MAX_SHIFT, (clamp01(u.uConvergence) - 5000) * 2)

\* float depthAmount = clamp(uDepth, 0.0, 1.0) * 0.1
depthAmountOf(u) == mul(clamp01(u.uDepth), 1000)

\* the remapping of one coordinate about the centre of its half: local,
\* depthScale, and centre + local * halfSpan
remap(adjusted, centre, halfSpan, from, to) ==
    LET local == div(adjusted - centre, halfSpan)
        depthScale == mix(from, to, clamp01(glAbs(local)))
    IN  centre + mul(mul(local, depthScale), halfSpan)

\* ANAGLYPH_FRAGMENT_SHADER and ANAGLYPH_FLAT_FRAGMENT_SHADER: from leftRGB
\* and rightRGB to color
anaglyphColor(leftRGB, rightRGB, u) ==
    LET antiRed == mul(clamp01(u.uAntiRed), 5000)
        antiGreen == mul(clamp01(u.uAntiGreen), 5000)
        antiBlue == mul(clamp01(u.uAntiBlue), 5000)
        greenBalance == mul(clamp01(u.uGreenBalance), 5000)
        leftGreenShare == mul(leftRGB.g, greenBalance)
        rightGreenShare == mul(rightRGB.g, One - greenBalance)
        redChannel == clamp01(leftRGB.r + leftGreenShare)
        gain(anti, luma) ==
            LET d == One - mul(anti, luma) IN div(One, IF d < 100 THEN 100 ELSE d)
    IN  [r |-> clamp01(mul(mul(redChannel, One - antiRed), gain(antiRed, LUMA_R))),
         g |-> clamp01(mul(mul(rightGreenShare, One - antiGreen), gain(antiGreen, LUMA_G))),
         b |-> clamp01(mul(mul(rightRGB.b, One - antiBlue), gain(antiBlue, LUMA_B)))]

\* ANAGLYPH_FRAGMENT_SHADER: main.  (x - centre) * 2.0 and local * 0.5 are the
\* division and the product by the half span 0.5.
anaglyphVrFragment(uv, u, map) ==
    LET d == depthAmountOf(u)
        shift == IF u.uLayout = 1 THEN 0 ELSE shiftOf(u)
        isOU == u.uLayout = 1
        baseL == IF ~isOU
                 THEN IF u.uHalfRes THEN <<2500 + mul(uv[1] - 5000, 2500), uv[2]>>
                      ELSE <<mul(uv[1], 5000), uv[2]>>
                 ELSE IF u.uHalfRes THEN <<uv[1], 2500 + mul(uv[2] - 5000, 2500)>>
                      ELSE <<uv[1], mul(uv[2], 5000)>>
        baseR == IF ~isOU
                 THEN IF u.uHalfRes THEN <<7500 + mul(uv[1] - 5000, 2500), uv[2]>>
                      ELSE <<mul(uv[1], 5000) + 5000, uv[2]>>
                 ELSE IF u.uHalfRes THEN <<uv[1], 7500 + mul(uv[2] - 5000, 2500)>>
                      ELSE <<uv[1], mul(uv[2], 5000) + 5000>>
        uvL == IF ~isOU
               THEN <<remap(clamp01(baseL[1] + shift), 2500, 5000, One + d, One - d),
                      baseL[2]>>
               ELSE <<baseL[1],
                      remap(clamp01(baseL[2] + shift), 2500, 5000, One + d, One - d)>>
        uvR == IF ~isOU
               THEN <<remap(clamp01(baseR[1] - shift), 7500, 5000, One - d, One + d),
                      baseR[2]>>
               ELSE <<baseR[1],
                      remap(clamp01(baseR[2] - shift), 7500, 5000, One - d, One + d)>>
        sL == IF u.uSwapEyes = 1 THEN uvR ELSE uvL
        sR == IF u.uSwapEyes = 1 THEN uvL ELSE uvR
    IN  [baseL |-> baseL, baseR |-> baseR, uvL |-> sL, uvR |-> sR, shift |-> shift,
         color |-> scale(anaglyphColor(texture2D(map, sL), texture2D(map, sR), u),
                         edgeFade(uv, u.uEdgeFeather))]

\* ANAGLYPH_FLAT_FRAGMENT_SHADER: main
anaglyphFlatFragment(vUv, u, map) ==
    LET d == depthAmountOf(u)
        shift == shiftOf(u)
        centerLeft == IF u.uLayout = 0 THEN 2500 ELSE 5000
        centerRight == IF u.uLayout = 0 THEN 7500 ELSE 5000
        halfSpan == IF u.uLayout = 0 THEN 2500 ELSE 5000
        baseL == IF u.uLayout = 0 THEN <<mul(vUv[1], 5000), vUv[2]>>
                 ELSE <<vUv[1], mul(vUv[2], 5000)>>
        baseR == IF u.uLayout = 0 THEN <<mul(vUv[1], 5000) + 5000, vUv[2]>>
                 ELSE <<vUv[1], mul(vUv[2], 5000) + 5000>>
        uvL == <<remap(clamp01(baseL[1] + shift), centerLeft, halfSpan, One + d, One - d),
                 baseL[2]>>
        uvR == <<remap(clamp01(baseR[1] - shift), centerRight, halfSpan, One - d, One + d),
                 baseR[2]>>
        sL == IF u.uSwapEyes = 1 THEN uvR ELSE uvL
        sR == IF u.uSwapEyes = 1 THEN uvL ELSE uvR
    IN  [baseL |-> baseL, baseR |-> baseR, uvL |-> sL, uvR |-> sR, shift |-> shift,
         color |-> anaglyphColor(texture2D(map, sL), texture2D(map, sR), u)]

----------------------------------------------------------------------------
(* The parts of the state a specification does not exercise stay idle *)

NoXmp ==
    [place \in {"GSpherical:element", "GPano:element", "GPano:attr", "GSpherical:attr"} |->
        [ProjectionType |-> <<>>, FullPanoWidthPixels |-> <<>>, FullPanoHeightPixels |-> <<>>,
         CroppedAreaImageWidthPixels |-> <<>>, CroppedAreaImageHeightPixels |-> <<>>]]

NoChain == [formed |-> FALSE, has |-> FALSE, value |-> <<>>]

NoFile ==
    [kind |-> "null", readable |-> FALSE, bytes |-> <<>>,
     xmpStart |-> FALSE, xmpEnd |-> FALSE, xmp |-> NoXmp, chain |-> NoChain]

NoVintCall == [buf |-> <<>>, pos |-> 0, forId |-> FALSE, called |-> FALSE]

VintIdle ==
    /\ vintArgs = NoVintCall
    /\ vintResult = VintNull

ScanIdle ==
    /\ meta = "pending"
    /\ stack = <<>>
    /\ found = [set |-> FALSE, val |-> 0]
    /\ lastIter = [loop |-> "none", before |-> 0, after |-> 0, turn |-> 0]

\* the Store's defaults
DefaultCalibration ==
    [antiR |-> 0, antiG |-> 0, antiB |-> 0, balance |-> 0, convergence |-> 50,
     depthCompression |-> 0]

DefaultState ==
    [projection |-> "flat", view |-> "watch", layout |-> "sbs", resolution |-> "half",
     eye |-> "left", antiR |-> 0, antiG |-> 0, antiB |-> 0, balance |-> 0,
     convergence |-> 50, depthCompression |-> 0]

\* new Render(video, canvas)
RenderNew(cv, vid) ==
    [camera |-> "orthoCamera",
     perspCamera |-> [fov |-> VR_VFOV_DEG, aspect |-> currentAspect(cv),
                      rotation |-> <<0, 0, 0>>],
     orthoCamera |-> [rotation |-> <<0, 0, 0>>, right |-> [w |-> 1, h |-> 1],
                      top |-> [w |-> 1, h |-> 1]],
     yaw |-> 0, pitch |-> 0, projHFovDeg |-> 0, projVFovDeg |-> 0,
     geometry |-> PlaneGeometry(2, 2), material |-> InitialMaterial, retired |-> {},
     canvas |-> cv, video |-> vid,
     frame |-> 0, pending |-> <<>>, ids |-> 0,
     readyState |-> 0, time |-> 0, uploaded |-> 0 - 1,
     frames |-> <<>>, marks |-> <<>>]

\* new Pipeline(): the constructor sets the projection and the view, and each
\* subscription calls its handler once
PipelineNew(cv, vid, s) ==
    setView(setProjection(setResolution(setLayout(
        stop(setView(setProjection(RenderNew(cv, vid), s), s)), s), s), s), s)

\* the fields of the Render object are those of t
Holds(t) ==
    /\ camera = t.camera
    /\ perspCamera = t.perspCamera
    /\ orthoCamera = t.orthoCamera
    /\ yaw = t.yaw
    /\ pitch = t.pitch
    /\ projHFovDeg = t.projHFovDeg
    /\ projVFovDeg = t.projVFovDeg
    /\ geometry = t.geometry
    /\ material = t.material
    /\ retired = t.retired

NoCamera == [fov |-> 0, yaw |-> 0, pitch |-> 0]

NoTrace ==
    [handler |-> "none", events |-> 0, dragSum |-> 0, before |-> NoCamera,
     first |-> NoCamera, materialId |-> 0]

\* no animation frame requested, no video source, nothing rendered
NoLoop == [frame |-> 0, debounce |-> 0, args |-> 0, pending |-> <<>>, ids |-> 0]

NoPlayer ==
    [url |-> 0, playback |-> FALSE, hidden |-> FALSE, readyState |-> 0, time |-> 0,
     detecting |-> FALSE]

NoLog ==
    [last |-> "none", call |-> "none", steps |-> 0,
     frames |-> <<>>, marks |-> <<>>, uploaded |-> 0 - 1,
     bodies |-> [resize |-> 0, drag |-> 0, wheel |-> 0, events |-> 0, ranWith |-> 0,
                 latest |-> 0],
     loops |-> 0, writeBack |-> 0, frameBefore |-> 0,
     old |-> [layout |-> "sbs", resolution |-> "half", projection |-> "flat"],
     results |-> [layout |-> "sbs", resolution |-> "half", projection |-> "flat"]]

LoopIdle ==
    /\ renderLoop = NoLoop
    /\ player = NoPlayer
    /\ log = NoLog

NoShader == [program |-> "none"]

ShaderIdle == shader = NoShader

NoSource == [type |-> "object", falsy |-> TRUE, text |-> <<>>, slice |-> FALSE, size |-> 0]

NoIo ==
    [by |-> "none", lowerName |-> <<>>, fileOrUrl |-> NoSource, start |-> 0, length |-> 0,
     fetched |-> <<>>, value |-> "null", from |-> 0, to |-> 0]

IoIdle == io = NoIo

NoControls ==
    [layoutDisabled |-> FALSE, resolutionDisabled |-> FALSE, last |-> "none",
     before |-> [view |-> "watch", layout |-> "sbs", resolution |-> "half"],
     inputs |-> 0]

ControlsIdle == controls = NoControls

NoPointer ==
    [isDragging |-> FALSE, dragLastX |-> 0, dragLastY |-> 0, held |-> FALSE,
     last |-> "none", events |-> 0,
     before |-> [camera |-> "orthoCamera", yaw |-> 0, pitch |-> 0, isDragging |-> FALSE,
                 held |-> FALSE, perspCamera |-> [fov |-> 0, rotation |-> <<0, 0, 0>>],
                 orthoCamera |-> [rotation |-> <<0, 0, 0>>]]]

PointerIdle == pointer = NoPointer

NoRepo ==
    [state |-> [f |-> 0, g |-> 0], subscribers |-> <<>>, seen |-> <<>>, gone |-> {},
     calls |-> <<>>, op |-> "none", at |-> [f |-> 0, g |-> 0], ops |-> 0]

RepoIdle == repo = NoRepo

NoLoads ==
    [loaded |-> <<>>, metadata |-> "none", pending |-> <<>>, settled |-> <<>>,
     last |-> "none"]

LoadsIdle == loads = NoLoads

AppIdle ==
    /\ IoIdle
    /\ ControlsIdle
    /\ PointerIdle
    /\ RepoIdle
    /\ LoadsIdle

SettingsIdle ==
    /\ view = "watch"
    /\ resolution = "half"
    /\ eye = "left"
    /\ calibration = DefaultCalibration

RenderIdle ==
    /\ SettingsIdle
    /\ LoopIdle
    /\ ShaderIdle
    /\ AppIdle
    /\ canvas = [clientWidth |-> 0, clientHeight |-> 0]
    /\ Holds(RenderNew([clientWidth |-> 0, clientHeight |-> 0],
                       [videoWidth |-> 0, videoHeight |-> 0]))
    /\ trace = NoTrace

DetectIdle ==
    /\ name = <<>>
    /\ file = NoFile
    /\ layout = "sbs"
    /\ projection = "flat"
    /\ videoTracks = <<>>
    /\ videoWidth = 1
    /\ videoHeight = 1
    /\ pc = "idle"
    /\ layoutResult = NoResult
    /\ resolutionResult = NoResult
    /\ projectionResult = NoResult

----------------------------------------------------------------------------
(* The layout specification: detect() up to its await, over file names that *)
(* carry every keyword in three letter cases, track lists with and without  *)
(* stereo-mode flags, and frame sizes around every threshold.               *)

MaxW == 34

Heights == {10, 25}

Wrap(str) == <<"m","_">> \o str \o <<".","m","p","4">>

CaseVariants(k) == {k, toUpperCase(k), toLowerCase(k)}

LayoutKeywords == Range(SBS_KEYWORDS) \cup Range(OU_KEYWORDS)

LayoutNames ==
    {Wrap(v) : v \in UNION {CaseVariants(k) : k \in LayoutKeywords}}
    \cup {<<"m",".","m","p","4">>,
          <<"c","l","i","p","_","o","u","_","s","b","s",".","m","k","v">>,
          <<"h","o","u","s","e",".","m","p","4">>}

Track(mode) == [stereoMode |-> mode]

TrackLists ==
    {<<>>,
     <<Track(<<>>)>>,
     <<Track(<<"m","o","n","o">>)>>,
     <<Track(left_right)>>,
     <<Track(toUpperCase(right_left))>>,
     <<Track(top_bottom)>>,
     <<Track(<<"B","o","t","t","o","m","_","T","o","p">>)>>,
     <<Track(<<>>), Track(top_bottom), Track(left_right)>>,
     <<Track(top_bottom \o <<"+">> \o left_right)>>}


InitLayout ==
    /\ name \in LayoutNames
    /\ file = NoFile
    /\ layout \in {"sbs", "ou"}
    /\ projection = "flat"
    /\ videoTracks \in TrackLists
    /\ videoWidth \in 1..MaxW
    /\ videoHeight \in Heights
    /\ pc = "start"
    /\ layoutResult = NoResult
    /\ resolutionResult = NoResult
    /\ projectionResult = NoResult
    /\ ScanIdle
    /\ VintIdle
    /\ RenderIdle

NextLayout == DetectLayoutStep \/ DetectResolutionStep

SpecLayout == InitLayout /\ [][NextLayout]_vars

----------------------------------------------------------------------------
(* The readVint specification: single calls of readVint on buffers that     *)
(* start with a leading byte of every width, followed by up to MaxTail      *)
(* bytes.                                                                   *)

MaxTail == 8

\* One leading byte per width with all payload bits clear, one with all set,
\* and the byte with no marker bit.
LeadBytes == {128, 255, 64, 127, 32, 63, 16, 31, 8, 15, 4, 7, 2, 3, 1, 0}

TailBytes == {0, 1, 128, 255}

\* n bytes, all equal to fill but the last
Filled(n, fill, last) == [i \in 1..n |-> IF i = n THEN last ELSE fill]

VintBuffers ==
    {<<lead>> \o Filled(n, fill, last) :
        lead \in LeadBytes, n \in 0..MaxTail, fill \in TailBytes, last \in TailBytes}

InitVint ==
    /\ DetectIdle
    /\ ScanIdle
    /\ vintArgs \in {[buf |-> b, pos |-> p, forId |-> f, called |-> FALSE] :
                        b \in VintBuffers, p \in {0, 1}, f \in BOOLEAN}
    /\ vintResult = VintNull
    /\ RenderIdle

ReadVintCall ==
    /\ ~vintArgs.called
    /\ vintArgs.buf # <<>>
    /\ vintResult' = readVint(vintArgs.buf, vintArgs.pos, vintArgs.forId)
    /\ vintArgs' = [vintArgs EXCEPT !.called = TRUE]
    /\ UNCHANGED <<appVars, shaderVars, loopVars, storeVars, settingVars, renderVars, detectVars, scanVars>>

NextVint == ReadVintCall

SpecVint == InitVint /\ [][NextVint]_vars

----------------------------------------------------------------------------
(* The projection specification: detect() as a whole, over file names with  *)
(* and without projection tokens and container extensions, byte sources     *)
(* that are missing, unreadable or readable, and MKV buffers that are       *)
(* well-formed element sequences or malformed ones.                         *)

MaxPrefix == 2

TokenName(tok) == <<"m","_">> \o tok \o <<".","a","v","i">>

ProjectionNames ==
    {<<"M","o","v","i","e","_","1","8","0","v","r","_","f","i","n","a","l",".","m","p","4">>,
     <<"a",".","m","p","4">>,
     <<"b",".","M","O","V">>,
     <<"v","r","3","6","0",".","m","p","4">>,
     <<"a",".","m","k","v">>,
     <<"a",".","w","e","b","m">>,
     <<"c","l","i","p","_","3","6","0",".","m","k","v">>,
     <<"v","r","1","8","0","_","3","6","0",".","a","v","i">>,
     <<"x","_","V","R","1","8","0",".","M","K","V">>}
    \cup {TokenName(tok) : tok \in Range(VR360_TOKENS) \cup Range(VR180_TOKENS)}

MkvNames ==
    {<<"a",".","m","k","v">>,
     <<"c","l","i","p","_","3","6","0",".","w","e","b","m">>,
     <<"x","_","V","R","1","8","0",".","M","K","V">>}

XmpNames == {<<"a",".","m","p","4">>, <<"b",".","M","O","V">>}

\* A one-byte size field
Size1(n) == <<128 + n>>

Element(id, payload) == id \o Size1(Len(payload)) \o payload

Tracks(payload) == Element(<<22, 84, 174, 107>>, payload)
TrackEntry(payload) == Element(<<174>>, payload)
Video(payload) == Element(<<224>>, payload)
ProjectionType(value) == Element(<<118, 113>>, value)

\* TrackNumber 1, PixelWidth 2, and an audio track
TrackNumber == <<215, 129, 1>>
PixelWidth == <<176, 129, 2>>
AudioEntry == TrackEntry(<<215, 129, 2, 225, 128>>)

\* Elements the walker has to skip: Void with no payload and with one byte,
\* an EBML header (4-byte ID), a 2-byte size field and an 8-byte size field
Skippable ==
    {<<236, 128>>,
     <<236, 129, 0>>,
     <<26, 69, 223, 163, 130, 0, 0>>,
     <<236, 64, 1, 0>>,
     <<236, 1, 0, 0, 0, 0, 0, 0, 1, 0>>}

RECURSIVE Flatten(_)
Flatten(seqs) == IF seqs = <<>> THEN <<>> ELSE Head(seqs) \o Flatten(Tail(seqs))

Prefixes == {Flatten(q) : q \in UNION {[1..n -> Skippable] : n \in 0..MaxPrefix}}

\* ProjectionType values: 0, 1, 2, 3, 1 and 256 in two bytes, no byte at all,
\* and 2^32 + 1 in five bytes
ProjectionValues ==
    {<<0>>, <<1>>, <<2>>, <<3>>, <<0, 1>>, <<1, 0>>, <<>>, <<1, 0, 0, 0, 1>>}

\* The chain alone, with siblings before Video and before ProjectionType, and
\* behind an audio TrackEntry
Chains(value) ==
    {Tracks(TrackEntry(Video(ProjectionType(value)))),
     Tracks(TrackEntry(TrackNumber \o Video(PixelWidth \o ProjectionType(value) \o PixelWidth))),
     Tracks(AudioEntry \o TrackEntry(Video(ProjectionType(value))))}

\* Well-formed element sequences that hold no chain
Chainless ==
    {<<>>,
     Tracks(AudioEntry),
     Tracks(TrackEntry(TrackNumber \o Video(PixelWidth))),
     TrackEntry(Video(ProjectionType(<<1>>)))}

\* Malformed buffers: a ProjectionType whose declared size runs past the end,
\* a truncated ID, a leading byte with no marker bit, a size that reaches far
\* past the buffer, and 5-byte size fields whose top bits are set
Malformed ==
    {Tracks(TrackEntry(Video(<<118, 113, 130, 1>>))),
     <<22, 84, 174>>,
     <<0, 129, 0>>,
     <<236, 16, 255, 255, 255>>,
     <<236, 8, 255, 255, 255, 250>>,
     <<236, 8, 255, 255, 255, 0>>,
     <<236, 8, 128, 0, 0, 0>>,
     <<22, 84, 174, 107, 134>> \o <<236, 8, 255, 255, 255, 250>>,
     Tracks(<<174, 134>> \o <<236, 8, 255, 255, 255, 250>>),
     Tracks(TrackEntry(<<224, 134>> \o <<236, 8, 255, 255, 255, 250>>))}

File(bytes, chain) ==
    [kind |-> "file", readable |-> TRUE, bytes |-> bytes,
     xmpStart |-> FALSE, xmpEnd |-> FALSE, xmp |-> NoXmp, chain |-> chain]

MkvFiles ==
    UNION {{File(pre \o c, [formed |-> TRUE, has |-> TRUE, value |-> v]) :
               pre \in Prefixes, c \in Chains(v)} : v \in ProjectionValues}
    \cup {File(pre \o c, [formed |-> TRUE, has |-> FALSE, value |-> <<>>]) :
        pre \in Prefixes, c \in Chainless}
    \cup {File(b, NoChain) : b \in Malformed}

Mp4File(atStart, atEnd, xmp) ==
    [kind |-> "file", readable |-> TRUE, bytes |-> <<>>,
     xmpStart |-> atStart, xmpEnd |-> atEnd, xmp |-> xmp, chain |-> NoChain]

Tags(pt, fullW, fullH, cropW, cropH) ==
    [ProjectionType |-> pt, FullPanoWidthPixels |-> fullW, FullPanoHeightPixels |-> fullH,
     CroppedAreaImageWidthPixels |-> cropW, CroppedAreaImageHeightPixels |-> cropH]

\* A packet that carries all its values in one place
XmpAt(place, tags) == [NoXmp EXCEPT ![place] = tags]

RECURSIVE ToText(_)
ToText(n) ==
    IF n < 10 THEN <<Digits[n + 1]>> ELSE ToText(n \div 10) \o <<Digits[(n % 10) + 1]>>

Vr180Xmp ==
    XmpAt("GPano:attr", Tags(equirectangular, ToText(3840), ToText(1920), ToText(1920), ToText(1920)))

\* The byte sources of the projection specification
OtherSource == [NoFile EXCEPT !.kind = "other"]
UnreadableFile == [File(<<>>, NoChain) EXCEPT !.readable = FALSE]

SmallFiles ==
    {NoFile, OtherSource, UnreadableFile,
     File(Tracks(TrackEntry(Video(ProjectionType(<<1>>)))),
          [formed |-> TRUE, has |-> TRUE, value |-> <<1>>]),
     Mp4File(TRUE, TRUE, Vr180Xmp),
     Mp4File(TRUE, FALSE, Vr180Xmp),
     Mp4File(FALSE, FALSE, NoXmp)}

DetectStart ==
    /\ layout = "sbs"
    /\ videoTracks = <<>>
    /\ videoWidth = 16
    /\ videoHeight = 9
    /\ pc = "start"
    /\ layoutResult = NoResult
    /\ resolutionResult = NoResult
    /\ projectionResult = NoResult

InitProjection ==
    /\ \/ /\ name \in ProjectionNames
          /\ file \in SmallFiles
          /\ projection \in {"flat", "vr180", "vr360"}
       \/ /\ name \in MkvNames
          /\ file \in MkvFiles
          /\ projection = "flat"
    /\ DetectStart
    /\ ScanIdle
    /\ VintIdle
    /\ RenderIdle

NextProjection ==
    \/ DetectLayoutStep
    \/ DetectResolutionStep
    \/ BeginProjection
    \/ BytesNull
    \/ BytesRejected
    \/ XmpArrives
    \/ MkvArrives
    \/ ScanSkip
    \/ ScanEnter
    \/ ScanProjectionType
    \/ ScanLeave
    \/ ScanReturn
    \/ ScanThrow
    \/ ResolveProjection

SpecProjection == InitProjection /\ [][NextProjection]_vars

----------------------------------------------------------------------------
(* The resolve specification: detect() on byte sources of every kind, a     *)
(* missing one, one that is not sliceable, one whose read rejects, files    *)
(* with and without XMP, a well-formed chain and the malformed buffers.     *)

FaultyFiles == SmallFiles \cup {File(b, NoChain) : b \in Malformed}

InitResolve ==
    /\ name \in MkvNames \cup XmpNames
    /\ file \in FaultyFiles
    /\ projection = "flat"
    /\ DetectStart
    /\ ScanIdle
    /\ VintIdle
    /\ RenderIdle

\* The interpreter runs a started function to its next await, and a pending
\* read settles.
FairSpecResolve == InitResolve /\ [][NextProjection]_vars /\ WF_vars(NextProjection)

----------------------------------------------------------------------------
(* The XMP specification: detect() on MP4/MOV files whose packet carries    *)
(* the five tags in any one of the four places, with widths and heights on  *)
(* both sides of every ratio bound.                                         *)


ProjectionTypeTexts ==
    {equirectangular,
     <<"E","q","u","i","r","e","c","t","a","n","g","u","l","a","r">>,
     <<" ","E","Q","U","I","R","E","C","T","A","N","G","U","L","A","R"," ">>,
     <<"c","u","b","e","m","a","p">>,
     equirectangular \o <<"2">>,
     <<" ">>,
     <<>>}

\* <<full, cropped>> widths: 0.5 exactly, the bounds 0.49 and 0.51 and their
\* neighbours, 1.0, a zero and an unparsable or missing full width, a missing
\* cropped width, a width with a unit
WidthTexts ==
    {<<ToText(3840), ToText(1920)>>, <<ToText(3840), ToText(3840)>>,
     <<ToText(100), ToText(48)>>, <<ToText(100), ToText(49)>>, <<ToText(100), ToText(51)>>,
     <<ToText(100), ToText(52)>>, <<ToText(100) \o <<"p","x">>, ToText(50)>>,
     <<ToText(0), ToText(0)>>, <<<<"a","b","c">>, ToText(50)>>, <<<<>>, ToText(50)>>,
     <<ToText(100), <<>>>>}

\* <<full, cropped>> heights: 1.0, the bounds 0.95 and 1.05 and their
\* neighbours, 0.5, a zero full height, a missing cropped height
HeightTexts ==
    {<<ToText(1920), ToText(1920)>>, <<ToText(100), ToText(94)>>, <<ToText(100), ToText(95)>>,
     <<ToText(100), ToText(105)>>, <<ToText(100), ToText(106)>>, <<ToText(100), ToText(50)>>,
     <<ToText(0), ToText(0)>>, <<ToText(100), <<>>>>}

XmpPlaces == {"GSpherical:element", "GPano:element", "GPano:attr", "GSpherical:attr"}

\* A second ProjectionType in a place that is looked at first
ShadowedXmp ==
    [XmpAt("GPano:element",
           Tags(equirectangular, ToText(100), ToText(100), ToText(50), ToText(100)))
        EXCEPT !["GSpherical:element"] =
            Tags(<<"c","u","b","e","m","a","p">>, <<>>, <<>>, <<>>, <<>>)]

XmpFiles ==
    {Mp4File(TRUE, TRUE, XmpAt(place, Tags(pt, w[1], h[1], w[2], h[2]))) :
        place \in XmpPlaces, pt \in ProjectionTypeTexts, w \in WidthTexts, h \in HeightTexts}
    \cup {Mp4File(TRUE, TRUE, ShadowedXmp)}

InitXmp ==
    /\ name \in XmpNames
    /\ file \in XmpFiles
    /\ projection = "flat"
    /\ DetectStart
    /\ ScanIdle
    /\ VintIdle
    /\ RenderIdle

NextXmp ==
    \/ DetectLayoutStep
    \/ DetectResolutionStep
    \/ BeginProjection
    \/ XmpArrives
    \/ ResolveProjection

SpecXmp == InitXmp /\ [][NextXmp]_vars

----------------------------------------------------------------------------
(* The clamp specification: _applyPanAndZoomClamps run twice on a           *)
(* perspective camera whose vertical FOV, yaw and pitch are any numbers or  *)
(* NaN, for the spans _createVrGeometry gives each projection and canvases  *)
(* that are square, wide, tall, a line and empty.                           *)

MaxPasses == 2

ClampFovs ==
    {NaNum, 0 - 50 * Deg, 0, 10 * Deg, 20 * Deg, 100 * Deg, 178 * Deg, 179 * Deg,
     180 * Deg, 400 * Deg}

ClampYaws == {NaNum, 0 - 7000, 0 - 2000, 0, 1000, 7000}

ClampPitches == {NaNum, 0 - 2000, 0, 500, 2000}

Canvas(cw, ch) == [clientWidth |-> cw, clientHeight |-> ch]

ClampCanvases ==
    {Canvas(0, 0), Canvas(100, 100), Canvas(160, 90), Canvas(90, 160), Canvas(1000, 1)}

NoVideo == [videoWidth |-> 0, videoHeight |-> 0]

CameraOf(t) == [fov |-> t.perspCamera.fov, yaw |-> t.yaw, pitch |-> t.pitch]

InitClamp ==
    /\ DetectIdle
    /\ ScanIdle
    /\ VintIdle
    /\ SettingsIdle
    /\ LoopIdle
    /\ ShaderIdle
    /\ AppIdle
    /\ canvas \in ClampCanvases
    /\ trace = NoTrace
    /\ \E p \in {"flat", "vr180", "vr360"}, f \in ClampFovs, y \in ClampYaws,
          q \in ClampPitches :
          Holds([createVrGeometry(RenderNew(canvas, NoVideo), p) EXCEPT
                    !.camera = "perspCamera", !.perspCamera.fov = f,
                    !.yaw = y, !.pitch = q])

\* one call of _applyPanAndZoomClamps
ClampPass ==
    /\ trace.events < MaxPasses
    /\ LET t == applyPanAndZoomClamps(This)
       IN  /\ Commit(t)
           /\ trace' = [trace EXCEPT !.handler = "clamps", !.events = @ + 1,
                                     !.before = CameraOf(This),
                                     !.first = IF trace.events = 0 THEN CameraOf(t)
                                               ELSE @]
    /\ UNCHANGED <<appVars, shaderVars, loopVars, storeVars, detectVars, scanVars, vintVars, settingVars>>

NextClamp == ClampPass

SpecClamp == InitClamp /\ [][NextClamp]_vars

----------------------------------------------------------------------------
(* The camera specification: the renderer of a fresh Pipeline, with or      *)
(* without a video that has dimensions, under drags, wheel turns, changes   *)
(* of the canvas size, the resize handler and changes of the projection and *)
(* the view in the Store.                                                   *)

MaxEvents == 4

CameraCanvases == {Canvas(100, 100), Canvas(200, 100), Canvas(0, 0)}

\* pointer moves, as the differences dx and dy of two pointer positions
Drags == {<<700, 0>>, <<0 - 700, 200>>, <<30, 0 - 200>>}

\* e.deltaY of a wheel event
WheelDeltas == {0 - 4000, 1500}

InitCamera ==
    /\ name = <<>>
    /\ file = NoFile
    /\ layout = "sbs"
    /\ projection = "flat"
    /\ videoTracks = <<>>
    /\ \/ videoWidth = 0 /\ videoHeight = 0
       \/ videoWidth = 16 /\ videoHeight = 9
    /\ pc = "idle"
    /\ layoutResult = NoResult
    /\ resolutionResult = NoResult
    /\ projectionResult = NoResult
    /\ ScanIdle
    /\ VintIdle
    /\ SettingsIdle
    /\ LoopIdle
    /\ ShaderIdle
    /\ AppIdle
    /\ canvas \in CameraCanvases
    /\ Holds(PipelineNew(canvas, [videoWidth |-> videoWidth, videoHeight |-> videoHeight],
                         DefaultState))
    /\ trace = NoTrace

Handled(h, sum) ==
    trace' = [trace EXCEPT !.handler = h, !.events = @ + 1, !.dragSum = sum,
                           !.before = CameraOf(This), !.materialId = material.id]

\* mousemove / touchmove while dragging: _handleDragMove
Drag ==
    /\ trace.events < MaxEvents
    /\ camera = "perspCamera"
    /\ \E d \in Drags :
          /\ Commit(applyDragDelta(This, d[1], d[2]))
          /\ Handled("drag", trace.dragSum + d[1] * DRAG_SENSITIVITY)
    /\ UNCHANGED <<appVars, shaderVars, loopVars, storeVars, detectVars, scanVars, vintVars, settingVars>>

\* wheel: _onWheel
Wheel ==
    /\ trace.events < MaxEvents
    /\ camera = "perspCamera"
    /\ \E deltaY \in WheelDeltas :
          /\ Commit(onWheel(This, deltaY))
          /\ Handled("wheel", trace.dragSum)
    /\ UNCHANGED <<appVars, shaderVars, loopVars, storeVars, detectVars, scanVars, vintVars, settingVars>>

\* the browser lays the canvas out anew; the resize event is still to come
CanvasResized ==
    /\ trace.events < MaxEvents
    /\ \E cv \in CameraCanvases :
          /\ cv # canvas
          /\ canvas' = cv
    /\ trace' = [trace EXCEPT !.handler = "none", !.events = @ + 1]
    /\ UNCHANGED <<appVars, shaderVars, loopVars, storeVars, detectVars, scanVars, vintVars, view, resolution, eye,
                   calibration, renderVarsButTrace>>

\* window resize (debounced to the next animation frame), video seeked:
\* this.render.resize(Store.get())
Resize ==
    /\ trace.events < MaxEvents
    /\ Commit(resize(This, StoreState))
    /\ Handled("resize", trace.dragSum)
    /\ UNCHANGED <<appVars, shaderVars, loopVars, storeVars, detectVars, scanVars, vintVars, settingVars>>

\* Store.set({ projection }) -> this.render.setProjection(s)
StoreSetProjection ==
    /\ trace.events < MaxEvents
    /\ \E p \in {"flat", "vr180", "vr360"} :
          /\ p # projection
          /\ projection' = p
          /\ Commit(setProjection(This, [StoreState EXCEPT !.projection = p]))
          /\ Handled("projection", IF isVrProjection(p) THEN 0 ELSE trace.dragSum)
    /\ UNCHANGED <<appVars, shaderVars, loopVars, name, file, layout, videoTracks, videoWidth, videoHeight,
                   detectVars, scanVars, vintVars, settingVars>>

\* Store.set({ view }) -> this.render.setView(s)
StoreSetView ==
    /\ trace.events < MaxEvents
    /\ \E v \in {"watch", "anaglyph", "original"} :
          /\ v # view
          /\ view' = v
          /\ Commit(setView(This, [StoreState EXCEPT !.view = v]))
          /\ Handled("view", IF isVrProjection(projection) THEN 0 ELSE trace.dragSum)
    /\ UNCHANGED <<appVars, shaderVars, loopVars, storeVars, detectVars, scanVars, vintVars, resolution, eye,
                   calibration, canvas>>

NextCamera ==
    \/ Drag
    \/ Wheel
    \/ CanvasResized
    \/ Resize
    \/ StoreSetProjection
    \/ StoreSetView

SpecCamera == InitCamera /\ [][NextCamera]_vars

----------------------------------------------------------------------------
(* The material specification: the renderer of a fresh Pipeline under the   *)
(* changes of the Store that its subscriptions and the debug panel's        *)
(* sliders hand to the renderer, and a change of the eye, which nothing is  *)
(* subscribed to.                                                           *)

\* the keys of the debug panel's controls
controlKeys == {"antiR", "antiG", "antiB", "balance", "convergence", "depthCompression"}

\* positions of a slider after clamp(), in hundredths
SliderValues == {0, 30, 100}

\* the uniforms a fragment shader declares
DeclaredUniforms(fragment) ==
    CASE fragment = "EQUIRECT_FRAGMENT_SHADER" ->
            {"map", "u_h_fov_rad", "u_v_fov_rad", "uLayout", "uIsWatchView", "uHalfRes",
             "uLeftEye", "uEdgeFeather"}
      [] fragment = "ANAGLYPH_FRAGMENT_SHADER" ->
            {"map", "u_h_fov_rad", "u_v_fov_rad", "uLayout", "uSwapEyes", "uHalfRes",
             "uEdgeFeather", "uAntiRed", "uAntiGreen", "uAntiBlue", "uGreenBalance",
             "uConvergence", "uDepth"}
      [] fragment = "ANAGLYPH_FLAT_FRAGMENT_SHADER" ->
            {"map", "uLayout", "uSwapEyes", "uAntiRed", "uAntiGreen", "uAntiBlue",
             "uGreenBalance", "uConvergence", "uDepth"}
      [] fragment = "WATCH_FLAT_FRAGMENT_SHADER" -> {"map", "uLayout", "uLeftEye"}
      [] OTHER -> {}

InitMaterial ==
    /\ name = <<>>
    /\ file = NoFile
    /\ layout = "sbs"
    /\ projection = "flat"
    /\ videoTracks = <<>>
    /\ \/ videoWidth = 0 /\ videoHeight = 0
       \/ videoWidth = 16 /\ videoHeight = 9
    /\ pc = "idle"
    /\ layoutResult = NoResult
    /\ resolutionResult = NoResult
    /\ projectionResult = NoResult
    /\ ScanIdle
    /\ VintIdle
    /\ SettingsIdle
    /\ LoopIdle
    /\ ShaderIdle
    /\ AppIdle
    /\ canvas = Canvas(200, 100)
    /\ Holds(PipelineNew(canvas, [videoWidth |-> videoWidth, videoHeight |-> videoHeight],
                         DefaultState))
    /\ trace = NoTrace

\* Store.set({ layout }) -> this.render.setLayout(s)
StoreSetLayout ==
    /\ trace.events < MaxEvents
    /\ \E l \in {"sbs", "ou"} :
          /\ l # layout
          /\ layout' = l
          /\ Commit(setLayout(This, [StoreState EXCEPT !.layout = l]))
    /\ Handled("layout", trace.dragSum)
    /\ UNCHANGED <<appVars, shaderVars, loopVars, name, file, projection, videoTracks, videoWidth, videoHeight,
                   detectVars, scanVars, vintVars, settingVars>>

\* Store.set({ resolution }) -> this.render.setResolution(s)
StoreSetResolution ==
    /\ trace.events < MaxEvents
    /\ \E r \in {"half", "full"} :
          /\ r # resolution
          /\ resolution' = r
          /\ Commit(setResolution(This, [StoreState EXCEPT !.resolution = r]))
    /\ Handled("resolution", trace.dragSum)
    /\ UNCHANGED <<appVars, shaderVars, loopVars, storeVars, detectVars, scanVars, vintVars, view, eye, calibration,
                   canvas>>

\* Store.set({ eye }): no subscription watches the eye
StoreSetEye ==
    /\ trace.events < MaxEvents
    /\ \E e \in {"left", "right"} :
          /\ e # eye
          /\ eye' = e
    /\ Handled("eye", trace.dragSum)
    /\ UNCHANGED <<appVars, shaderVars, loopVars, storeVars, detectVars, scanVars, vintVars, view, resolution,
                   calibration, canvas, renderVarsButTrace>>

\* the input handler of a slider of the debug panel, and the subscription
\* to controlKeys that calls pipeline.render.updateMaterial(s)
SliderInput ==
    /\ trace.events < MaxEvents
    /\ \E storeKey \in controlKeys, sliderValue \in SliderValues :
          /\ calibration[storeKey] # sliderValue
          /\ calibration' = [calibration EXCEPT ![storeKey] = sliderValue]
          /\ Commit(updateMaterial(This, [StoreState EXCEPT ![storeKey] = sliderValue]))
    /\ Handled("calibration", trace.dragSum)
    /\ UNCHANGED <<appVars, shaderVars, loopVars, storeVars, detectVars, scanVars, vintVars, view, resolution, eye,
                   canvas>>

NextMaterial ==
    \/ StoreSetProjection
    \/ StoreSetView
    \/ StoreSetLayout
    \/ StoreSetResolution
    \/ StoreSetEye
    \/ SliderInput

SpecMaterial == InitMaterial /\ [][NextMaterial]_vars

----------------------------------------------------------------------------
(* The shader specification: one fragment of each program, over a grid of   *)
(* coordinates, the uniforms a material can hold and a frame of two         *)
(* colours.                                                                 *)

ShaderUs == {0, 5000, 8000}
ShaderVs == {1600, 5000}
Convergences == {0, 5000, 10000}
Black == [r |-> 0, g |-> 0, b |-> 0]
Red == [r |-> One, g |-> 0, b |-> 0]
White == [r |-> One, g |-> One, b |-> One]
Colours == {Black, Red, White}

\* the uniforms of a fragment program
Uniforms ==
    {[uLayout |-> l, uHalfRes |-> h, uIsWatchView |-> w, uLeftEye |-> e, uSwapEyes |-> 0,
      uEdgeFeather |-> f, uConvergence |-> c, uDepth |-> d,
      uAntiRed |-> a, uAntiGreen |-> a, uAntiBlue |-> a, uGreenBalance |-> g] :
        l \in {0, 1}, h \in BOOLEAN, w \in BOOLEAN, e \in BOOLEAN,
        f \in {<<0, 0>>, <<500, 500>>}, c \in Convergences, d \in {0, 5000},
        a \in {0, One}, g \in {0, 5000}}

NoFragment ==
    [baseL |-> <<0, 0>>, baseR |-> <<0, 0>>, uvL |-> <<0, 0>>, uvR |-> <<0, 0>>,
     shift |-> 0, color |-> Black]

InitShader ==
    /\ DetectIdle
    /\ ScanIdle
    /\ VintIdle
    /\ SettingsIdle
    /\ LoopIdle
    /\ AppIdle
    /\ canvas = [clientWidth |-> 0, clientHeight |-> 0]
    /\ Holds(RenderNew([clientWidth |-> 0, clientHeight |-> 0],
                       [videoWidth |-> 0, videoHeight |-> 0]))
    /\ trace = NoTrace
    /\ \E x \in ShaderUs, y \in ShaderVs, u \in Uniforms, c1 \in Colours, c2 \in Colours :
          shader = [program |-> "none", uv |-> <<x, y>>, u |-> u,
                    map |-> [layout |-> u.uLayout, first |-> c1, second |-> c2],
                    out |-> NoFragment]

Shade(program, out) ==
    /\ shader.program = "none"
    /\ shader' = [shader EXCEPT !.program = program, !.out = out]
    /\ UNCHANGED <<appVars, storeVars, detectVars, scanVars, vintVars, settingVars, renderVars,
                   loopVars>>

ShadeEquirect ==
    Shade("EQUIRECT_FRAGMENT_SHADER", equirectFragment(shader.uv, shader.u, shader.map))

ShadeAnaglyphVr ==
    Shade("ANAGLYPH_FRAGMENT_SHADER", anaglyphVrFragment(shader.uv, shader.u, shader.map))

ShadeAnaglyphFlat ==
    Shade("ANAGLYPH_FLAT_FRAGMENT_SHADER",
          anaglyphFlatFragment(shader.uv, shader.u, shader.map))

ShadeWatchFlat ==
    Shade("WATCH_FLAT_FRAGMENT_SHADER", watchFlatFragment(shader.uv, shader.u, shader.map))

NextShader ==
    \/ ShadeEquirect
    \/ ShadeAnaglyphVr
    \/ ShadeAnaglyphFlat
    \/ ShadeWatchFlat

SpecShader == InitShader /\ [][NextShader]_vars

----------------------------------------------------------------------------
(* The render loop specification: a Pipeline on a page, from the first url  *)
(* through loadedmetadata and detection to playback, with the events of the *)
(* window and the display refreshes in between.                             *)

MaxSteps == 6

LoopCanvases == {Canvas(200, 100), Canvas(100, 100)}

\* Store.get() as the Pipeline reads it, with the url and the playback flag
PipelineState ==
    [projection |-> projection, view |-> view, layout |-> layout,
     resolution |-> resolution, eye |-> eye,
     antiR |-> calibration.antiR, antiG |-> calibration.antiG,
     antiB |-> calibration.antiB, balance |-> calibration.balance,
     convergence |-> calibration.convergence,
     depthCompression |-> calibration.depthCompression,
     url |-> player.url, playback |-> player.playback]

\* one statement after another: F applied to the state that t evaluates to
Then(t, F(_)) == CHOOSE r \in {F(x) : x \in {t}} : TRUE

\* Pipeline.setVideoSource
setVideoSource(t, s) ==
    IF s.url = 0 THEN t ELSE Then(setVideo(t), LAMBDA v : resize(v, s))

\* Repository.set as the Pipeline sees it: its subscribers, in the order they
\* subscribed, each called with the new state if the field it watches changed
Notify(t, old, new) ==
    Then(IF new.url # old.url THEN setVideoSource(t, new) ELSE t, LAMBDA a :
    Then(IF new.playback = old.playback THEN a
         ELSE IF new.playback THEN start(a) ELSE stop(a), LAMBDA b :
    Then(IF new.layout # old.layout THEN setLayout(b, new) ELSE b, LAMBDA c :
    Then(IF new.resolution # old.resolution THEN setResolution(c, new) ELSE c, LAMBDA d :
    Then(IF new.projection # old.projection THEN setProjection(d, new) ELSE d, LAMBDA e :
         IF new.view # old.view THEN setView(e, new) ELSE e)))))

\* the loop of Render.start, as an animation-frame callback
loopCallback(t) ==
    LET r == renderFrame(t)
    IN  [requestAnimationFrame(r, "loop") EXCEPT !.frame = r.ids + 1]

RECURSIVE runCallbacks(_, _, _)
runCallbacks(t, callbacks, s) ==
    IF callbacks = <<>> THEN t
    ELSE Then(IF Head(callbacks).callback = "loop" THEN loopCallback(t) ELSE resize(t, s),
              LAMBDA r : runCallbacks(r, Tail(callbacks), s))

InitLoop ==
    /\ name = <<>>
    /\ file = NoFile
    /\ layout = "sbs"
    /\ projection = "flat"
    /\ videoTracks = <<>>
    /\ videoWidth = 0
    /\ videoHeight = 0
    /\ pc = "idle"
    /\ layoutResult = NoResult
    /\ resolutionResult = NoResult
    /\ projectionResult = NoResult
    /\ ScanIdle
    /\ VintIdle
    /\ SettingsIdle
    /\ ShaderIdle
    /\ AppIdle
    /\ canvas = Canvas(200, 100)
    /\ Holds(PipelineNew(canvas, [videoWidth |-> 0, videoHeight |-> 0], DefaultState))
    /\ trace = NoTrace
    /\ renderLoop = NoLoop
    /\ player = NoPlayer
    /\ log = NoLog

\* what a handler leaves behind: the renderer, the animation frames, and the
\* record of what it rendered and marked
Ran(t, last, call, debounce, args, bodies, loops, writeBack, results) ==
    /\ Commit(t)
    /\ renderLoop' = [frame |-> t.frame, debounce |-> debounce, args |-> args,
                      pending |-> t.pending, ids |-> t.ids]
    /\ log' = [last |-> last, call |-> call, steps |-> log.steps + 1,
               frames |-> t.frames, marks |-> t.marks, uploaded |-> t.uploaded,
               bodies |-> bodies, loops |-> loops, writeBack |-> writeBack,
               frameBefore |-> renderLoop.frame,
               old |-> [layout |-> layout, resolution |-> resolution,
                        projection |-> projection],
               results |-> results]

Quiet(t, last, call) ==
    Ran(t, last, call, renderLoop.debounce, renderLoop.args, log.bodies, 0, 0, log.results)

\* Store.set({ url }) for the first video: the element has no data yet
StoreSetUrl ==
    /\ log.steps < MaxSteps
    /\ player.url = 0
    /\ player' = [player EXCEPT !.url = 1, !.readyState = 0]
    /\ Quiet(Notify(This, PipelineState, [PipelineState EXCEPT !.url = 1]), "url", "none")
    /\ UNCHANGED <<appVars, shaderVars, storeVars, detectVars, scanVars, vintVars, settingVars, trace>>

\* loadedmetadata: the dimensions are known and the handler awaits detect()
LoadedMetadata ==
    /\ log.steps < MaxSteps
    /\ player.url # 0
    /\ player.readyState = 0
    /\ videoWidth' = 16
    /\ videoHeight' = 9
    /\ player' = [player EXCEPT !.readyState = 1, !.detecting = TRUE]
    /\ Quiet(This, "loadedmetadata", "none")
    /\ UNCHANGED <<appVars, shaderVars, name, file, layout, projection, videoTracks, detectVars,
                   scanVars, vintVars, settingVars, trace>>

\* the video decodes its next frame
VideoProgress ==
    /\ log.steps < MaxSteps
    /\ player.readyState >= 1
    /\ player' = [player EXCEPT !.readyState = 4, !.time = @ + 1]
    /\ Quiet(This, "progress", "none")
    /\ UNCHANGED <<appVars, shaderVars, storeVars, detectVars, scanVars, vintVars, settingVars, trace>>

\* the rest of the loadedmetadata handler, once detect() has settled
DetectionCompletes ==
    /\ log.steps < MaxSteps
    /\ player.detecting
    /\ \E l \in {"sbs", "ou"}, r \in {"half", "full"}, p \in {"flat", "vr180", "vr360"} :
          LET s0 == PipelineState
              s1 == [s0 EXCEPT !.layout = l, !.resolution = r, !.projection = p]
              s2 == [s1 EXCEPT !.playback = TRUE]
              t1 == Notify(This, s0, s1)
              t3 == Then(t1, LAMBDA t : Then(Notify(t, s1, s2), LAMBDA t2 : resize(t2, s2)))
          IN  /\ layout' = l
              /\ resolution' = r
              /\ projection' = p
              /\ player' = [player EXCEPT !.playback = TRUE, !.detecting = FALSE]
              /\ Ran(t3, "detected", IF s0.playback THEN "none" ELSE "start",
                     renderLoop.debounce, renderLoop.args, log.bodies, 0,
                     Len(t1.frames),
                     [layout |-> l, resolution |-> r, projection |-> p])
    /\ UNCHANGED <<appVars, shaderVars, name, file, videoTracks, videoWidth, videoHeight, detectVars,
                   scanVars, vintVars, view, eye, calibration, canvas, trace>>

\* Store.toggle("playback"), and the end of the video
StoreSetPlayback ==
    /\ log.steps < MaxSteps
    /\ player.url # 0
    /\ player' = [player EXCEPT !.playback = ~@]
    /\ Quiet(Notify(This, PipelineState, [PipelineState EXCEPT !.playback = ~@]), "playback",
             IF player.playback THEN "stop" ELSE "start")
    /\ UNCHANGED <<appVars, shaderVars, storeVars, detectVars, scanVars, vintVars, settingVars, trace>>

\* visibilitychange
VisibilityChange ==
    /\ log.steps < MaxSteps
    /\ player' = [player EXCEPT !.hidden = ~@]
    /\ IF ~player.hidden
       THEN Quiet(stop(This), "visibility", "stop")
       ELSE IF player.playback
       THEN Quiet(start(This), "visibility", "start")
       ELSE Quiet(This, "visibility", "none")
    /\ UNCHANGED <<appVars, shaderVars, storeVars, detectVars, scanVars, vintVars, settingVars, trace>>

\* seeked
Seeked ==
    /\ log.steps < MaxSteps
    /\ player.readyState >= 1
    /\ Quiet(resize(This, PipelineState), "seeked", "none")
    /\ UNCHANGED <<appVars, shaderVars, storeVars, detectVars, scanVars, vintVars, settingVars, trace,
                   player>>

\* resize of the window: the listener is Utils.debounce(() => render.resize(..))
WindowResize ==
    /\ log.steps < MaxSteps
    /\ \E cv \in LoopCanvases :
          /\ cv # canvas
          /\ canvas' = cv
    /\ LET cancelled == IF renderLoop.debounce # 0
                        THEN cancelAnimationFrame(This, renderLoop.debounce)
                        ELSE This
       IN  Ran(requestAnimationFrame(cancelled, "resize"), "resize", "none",
               cancelled.ids + 1, log.bodies.events + 1,
               [log.bodies EXCEPT !.events = @ + 1], 0, 0, log.results)
    /\ UNCHANGED <<appVars, shaderVars, storeVars, detectVars, scanVars, vintVars, view, resolution,
                   eye, calibration, trace, player>>

\* mousemove or touchmove during a drag
PointerMove ==
    /\ log.steps < MaxSteps
    /\ camera = "perspCamera"
    /\ \E d \in {<<700, 0>>, <<30, 0 - 200>>} :
          Ran(handleDragMove(This, d[1], d[2]), "drag", "none", renderLoop.debounce,
              renderLoop.args, [log.bodies EXCEPT !.drag = @ + 1], 0, 0, log.results)
    /\ UNCHANGED <<appVars, shaderVars, storeVars, detectVars, scanVars, vintVars, settingVars, trace,
                   player>>

\* wheel
WheelEvent ==
    /\ log.steps < MaxSteps
    /\ camera = "perspCamera"
    /\ \E deltaY \in WheelDeltas :
          Ran(onWheel(This, deltaY), "wheel", "none", renderLoop.debounce,
              renderLoop.args, [log.bodies EXCEPT !.wheel = @ + 1], 0, 0, log.results)
    /\ UNCHANGED <<appVars, shaderVars, storeVars, detectVars, scanVars, vintVars, settingVars, trace,
                   player>>

\* a display refresh: the animation-frame callbacks pending at its start run
\* in the order they were requested
Refresh ==
    /\ log.steps < MaxSteps
    /\ ~player.hidden
    /\ LET callbacks == renderLoop.pending
           resized == \E i \in DOMAIN callbacks : callbacks[i].callback = "resize"
           loops == Cardinality({i \in DOMAIN callbacks : callbacks[i].callback = "loop"})
       IN  Ran(runCallbacks([This EXCEPT !.pending = <<>>], callbacks, PipelineState),
               "refresh", "none",
               IF resized THEN 0 ELSE renderLoop.debounce,
               renderLoop.args,
               [resize |-> IF resized THEN 1 ELSE 0, drag |-> 0, wheel |-> 0,
                events |-> 0, ranWith |-> IF resized THEN renderLoop.args ELSE 0,
                latest |-> log.bodies.events],
               loops, 0, log.results)
    /\ UNCHANGED <<appVars, shaderVars, storeVars, detectVars, scanVars, vintVars, settingVars, trace,
                   player>>

NextLoop ==
    \/ StoreSetUrl
    \/ LoadedMetadata
    \/ VideoProgress
    \/ DetectionCompletes
    \/ StoreSetPlayback
    \/ VisibilityChange
    \/ Seeked
    \/ WindowResize
    \/ PointerMove
    \/ WheelEvent
    \/ Refresh

SpecLoop == InitLoop /\ [][NextLoop]_vars

----------------------------------------------------------------------------
(* Claims about detectLayout and detectResolution, checked under SpecLayout *)

FlaggedTracks ==
    {i \in DOMAIN videoTracks : trackIsSbs(videoTracks[i]) \/ trackIsOu(videoTracks[i])}

FirstFlagged == CHOOSE i \in FlaggedTracks : \A j \in FlaggedTracks : i <= j

KeywordHit ==
    some(SBS_KEYWORDS, toUpperCase(name)) \/ some(OU_KEYWORDS, toUpperCase(name))

AspectHit ==
    AspectGE(videoWidth, videoHeight, 28, 10) \/ AspectLE(videoWidth, videoHeight, 112, 100)

\* C1: detectLayout resolves its tiers in strict priority order.  A track
\* stereo-mode flag decides with method metadata whatever the name and the
\* aspect ratio are (left_right/right_left gives sbs, top_bottom/bottom_top
\* gives ou, the first flagged track deciding); with no flag a keyword match
\* decides with method filename whatever the aspect ratio is; with neither,
\* the aspect tier decides; with none of the three the caller's current
\* layout is returned with method default.  Every result carries a value and
\* the method of the tier that produced it.
C1_TierPriority ==
    pc # "start" =>
        /\ layoutResult.value \in {"sbs", "ou"}
        /\ layoutResult.method \in Range(METHOD)
        /\ FlaggedTracks # {} =>
              /\ layoutResult.method = "metadata"
              /\ (trackIsSbs(videoTracks[FirstFlagged]) /\ ~trackIsOu(videoTracks[FirstFlagged]))
                     => layoutResult.value = "sbs"
              /\ (trackIsOu(videoTracks[FirstFlagged]) /\ ~trackIsSbs(videoTracks[FirstFlagged]))
                     => layoutResult.value = "ou"
        /\ (FlaggedTracks = {} /\ KeywordHit) => layoutResult.method = "filename"
        /\ (FlaggedTracks = {} /\ ~KeywordHit /\ AspectHit)
              => layoutResult.method = "resolution"
        /\ (FlaggedTracks = {} /\ ~KeywordHit /\ ~AspectHit)
              => layoutResult = [value |-> layout, method |-> "default"]

\* A flagged track decided against a keyword of the name and against the
\* aspect ratio, which both say sbs.
C1_Witness ==
    /\ pc = "layout"
    /\ FlaggedTracks # {}
    /\ some(SBS_KEYWORDS, toUpperCase(name))
    /\ AspectGE(videoWidth, videoHeight, 28, 10)
    /\ layoutResult = [value |-> "ou", method |-> "metadata"]

ContainsAnyCase(k) == includes(toUpperCase(name), toUpperCase(k))

\* C3: the filename tier is case-insensitive for every keyword of the two
\* lists: with no stereo-mode flag, a name that contains a keyword of
\* SBS_KEYWORDS in any letter case gives sbs with method filename, and a name
\* that contains a keyword of OU_KEYWORDS in any letter case (and none of
\* SBS_KEYWORDS) gives ou with method filename.
C3_CaseInsensitive ==
    (pc # "start" /\ FlaggedTracks = {}) =>
        /\ (\E i \in DOMAIN SBS_KEYWORDS : ContainsAnyCase(SBS_KEYWORDS[i]))
              => layoutResult = [value |-> "sbs", method |-> "filename"]
        /\ (/\ \A i \in DOMAIN SBS_KEYWORDS : ~ContainsAnyCase(SBS_KEYWORDS[i])
            /\ \E i \in DOMAIN OU_KEYWORDS : ContainsAnyCase(OU_KEYWORDS[i]))
              => layoutResult = [value |-> "ou", method |-> "filename"]

\* C4: detectResolution returns half or full and nothing else; for the layout
\* detectLayout has just produced in the same detect() call, sbs gives full
\* iff width/height >= 3.3 and ou gives full iff width/height < 1.0.
C4_ResolutionOfDetectedLayout ==
    pc = "resolution" =>
        /\ resolutionResult.value \in {"half", "full"}
        /\ layoutResult.value = "sbs" =>
              (resolutionResult.value = "full" <=> AspectGE(videoWidth, videoHeight, 33, 10))
        /\ layoutResult.value = "ou" =>
              (resolutionResult.value = "full" <=> AspectLT(videoWidth, videoHeight, 1, 1))

\* The detected layout differs from the store's layout and the two layouts
\* give different resolutions for this frame size.
C4_Witness ==
    /\ pc = "resolution"
    /\ layoutResult.value # layout
    /\ resolutionResult # detectResolution(StoreGet, layout)
    /\ resolutionResult = detectResolution(StoreGet, layoutResult.value)

----------------------------------------------------------------------------
(* Claims about readVint, checked under SpecVint *)

\* 2^k for k in 0..8
Pow2(k) == CASE k = 0 -> 1 [] k = 1 -> 2 [] k = 2 -> 4 [] k = 3 -> 8 [] k = 4 -> 16
             [] k = 5 -> 32 [] k = 6 -> 64 [] k = 7 -> 128 [] OTHER -> 256

\* the 1-based position, from the most significant bit down, of the highest
\* set bit of a non-zero byte
HighestBitPos(byte) ==
    CHOOSE w \in 1..8 : Pow2(8 - w) <= byte /\ byte < Pow2(9 - w)

\* the bytes of the integer as EBML defines it, most significant first: the
\* marker bit is kept for an element ID and cleared for a size
VintBytes(buf, pos, width, forId) ==
    [i \in 1..width |->
        IF i = 1 /\ ~forId THEN buf[pos + 1] - Pow2(8 - width) ELSE buf[pos + i]]

\* v is the unsigned big-endian integer of the bytes
IsBigEndianOf(v, bytes) ==
    /\ v >= 0
    /\ \A i \in DOMAIN bytes :
          LET k == Len(bytes) - i
          IN  bytes[i] = CASE k = 0 -> v % 256
                           [] k = 1 -> (v \div 256) % 256
                           [] k = 2 -> (v \div 65536) % 256
                           [] k = 3 -> (v \div 16777216) % 256
                           [] OTHER -> 0

\* C10: readVint decodes every variable-length integer of width 1 to 8: the
\* width is the 1-based position of the highest set bit of the leading byte,
\* the value is the unsigned big-endian integer of the width bytes (marker bit
\* kept for an ID, masked out for a size), and the result is null iff the
\* leading byte has no set bit or pos + width exceeds the buffer length.
C10_VintDecodes ==
    vintArgs.called =>
        LET buf  == vintArgs.buf
            pos  == vintArgs.pos
            lead == IF pos < Len(buf) THEN buf[pos + 1] ELSE 0
            fits == lead # 0 /\ pos + HighestBitPos(lead) <= Len(buf)
        IN  /\ vintResult.st = "null" <=> ~fits
            /\ fits =>
                  /\ vintResult.width = HighestBitPos(lead)
                  /\ IsBigEndianOf(vintResult.value,
                                   VintBytes(buf, pos, HighestBitPos(lead), vintArgs.forId))

----------------------------------------------------------------------------
(* Claims about detectProjection and the EBML walker, checked under         *)
(* SpecProjection                                                           *)

LowerName == toLowerCase(name)

\* C5: detectProjection resolves its tiers in strict priority order: a
\* metadata classification wins over any file name; on a metadata miss the
\* VR360 tokens are looked for before the VR180 tokens, so that a name with
\* tokens of both lists gives vr360 and "Movie_180vr_final.mp4" gives vr180,
\* both with method filename; with no token the caller's current projection
\* is returned with method default.
C5_ProjectionPriority ==
    pc = "resolved" =>
        /\ meta # "null" => projectionResult = [value |-> meta, method |-> "metadata"]
        /\ (meta = "null" /\ some(VR360_TOKENS, LowerName))
              => projectionResult = [value |-> "vr360", method |-> "filename"]
        /\ (meta = "null" /\ ~some(VR360_TOKENS, LowerName) /\ some(VR180_TOKENS, LowerName))
              => projectionResult = [value |-> "vr180", method |-> "filename"]
        /\ (meta = "null" /\ ~some(VR360_TOKENS, LowerName) /\ ~some(VR180_TOKENS, LowerName))
              => projectionResult = [value |-> projection, method |-> "default"]
        /\ (meta = "null" /\ name = <<"M","o","v","i","e","_","1","8","0","v","r","_",
                                      "f","i","n","a","l",".","m","p","4">>)
              => projectionResult = [value |-> "vr180", method |-> "filename"]

\* The container classified the video against a token of the name, or the
\* name holds tokens of both lists and no metadata classified it.
C5_Witness ==
    /\ pc = "resolved"
    /\ \/ /\ meta # "null"
          /\ some(VR360_TOKENS, LowerName) \/ some(VR180_TOKENS, LowerName)
          /\ projectionFromName(StoreGet).value # meta
          /\ projectionResult.value = meta
       \/ /\ meta = "null"
          /\ some(VR360_TOKENS, LowerName) /\ some(VR180_TOKENS, LowerName)
          /\ projectionResult.value = "vr360"

\* C6: detect() resolves whatever the byte source and the metadata are: for a
\* missing source, a rejected read and truncated or malformed XMP/EBML the
\* metadata tier counts as a miss and detect() resolves with a complete
\* {layout, resolution, projection}.
C6_AlwaysResolves ==
    <>(/\ pc = "resolved"
       /\ layoutResult # NoResult
       /\ resolutionResult # NoResult
       /\ projectionResult # NoResult)

\* C7: in the top-level loop, in seekWithin and in the Video loop of
\* _readMkvProjectionType the scan position strictly increases on every
\* iteration, whatever widths and declared sizes the bytes encode.
C7_PositionIncreases ==
    lastIter.loop # "none" => lastIter.after > lastIter.before

\* the bytes are the unsigned big-endian integer 1
ValueIsOne(bytes) ==
    /\ bytes # <<>>
    /\ bytes[Len(bytes)] = 1
    /\ \A i \in 1..(Len(bytes) - 1) : bytes[i] = 0

\* C9: for an MKV/WebM source whose bytes are a sequence of well-formed
\* elements, the metadata tier returns vr360 when they hold a Tracks ->
\* TrackEntry -> Video -> ProjectionType chain whose value is 1, and no
\* classification when the value is anything else or the chain is absent.
C9_ChainClassified ==
    (/\ pc \in {"filename", "resolved"}
     /\ isMkvOrWebm(LowerName)
     /\ file.kind = "file" /\ file.readable
     /\ file.chain.formed)
        => (meta = "vr360" <=> (file.chain.has /\ ValueIsOne(file.chain.value)))

----------------------------------------------------------------------------
(* The claim about _classifyFromXmp, checked under SpecXmp *)

\* the place that holds the packet's values, when there is exactly one
OnlyPlace == CHOOSE p \in XmpPlaces : file.xmp[p] # NoXmp[p]

HasOnlyPlace == Cardinality({p \in XmpPlaces : file.xmp[p] # NoXmp[p]}) = 1

\* C8: given ProjectionType equirectangular (in any letter case) and positive
\* finite pano dimensions, _classifyFromXmp returns vr180 iff
\* CroppedAreaImageWidth/FullPanoWidth is in [0.49, 0.51] and
\* CroppedAreaImageHeight/FullPanoHeight is in [0.95, 1.05], and vr360 for
\* every other combination of dimensions; a ProjectionType that is not
\* equirectangular, or absent, gives no classification.
C8_XmpClassification ==
    (pc \in {"filename", "resolved"} /\ HasOnlyPlace) =>
        LET tags  == file.xmp[OnlyPlace]
            pt    == toLowerCase(trim(tags.ProjectionType))
            fullW == toNum(trim(tags.FullPanoWidthPixels))
            fullH == toNum(trim(tags.FullPanoHeightPixels))
            cropW == toNum(trim(tags.CroppedAreaImageWidthPixels))
            cropH == toNum(trim(tags.CroppedAreaImageHeightPixels))
            half  == /\ ~cropW.nan /\ ~cropH.nan
                     /\ 49 * fullW.n <= 100 * cropW.n /\ 100 * cropW.n <= 51 * fullW.n
                     /\ 95 * fullH.n <= 100 * cropH.n /\ 100 * cropH.n <= 105 * fullH.n
        IN  /\ pt # equirectangular => meta = "null"
            /\ (pt = equirectangular /\ ~fullW.nan /\ ~fullH.nan /\ fullW.n > 0 /\ fullH.n > 0)
                  => /\ meta \in {"vr180", "vr360"}
                     /\ meta = "vr180" <=> half

\* The spec's two examples: 3840x1920 with a 1920x1920 crop is vr180, a crop
\* equal to the full panorama is vr360.
C8_Witness ==
    /\ pc = "resolved"
    /\ HasOnlyPlace
    /\ toLowerCase(trim(file.xmp[OnlyPlace].ProjectionType)) = equirectangular
    /\ file.xmp[OnlyPlace].FullPanoWidthPixels = <<"3","8","4","0">>
    /\ file.xmp[OnlyPlace].FullPanoHeightPixels = <<"1","9","2","0">>
    /\ file.xmp[OnlyPlace].CroppedAreaImageHeightPixels = <<"1","9","2","0">>
    /\ \/ /\ file.xmp[OnlyPlace].CroppedAreaImageWidthPixels = <<"1","9","2","0">>
          /\ projectionResult = [value |-> "vr180", method |-> "metadata"]
       \/ /\ file.xmp[OnlyPlace].CroppedAreaImageWidthPixels = <<"3","8","4","0">>
          /\ projectionResult = [value |-> "vr360", method |-> "metadata"]

----------------------------------------------------------------------------
(* Claims about clampFov and clampYawPitch, checked under SpecClamp *)

C12_HorizontalFovBounded ==
    (/\ trace.handler = "clamps"
     /\ projHFovDeg = 180 * Deg
     /\ ~isNaN(trace.before.fov))
        => vFovDegToHFovDeg(perspCamera.fov, currentAspect(canvas)) <= projHFovDeg - 1 * Deg

\* C15: a second clamp pass with no input in between leaves the yaw, the
\* pitch and the FOV of the first pass, also when a limit is negative.
C15_ClampIdempotent ==
    trace.events = 2 => CameraOf(This) = trace.first

\* Two passes ran with a negative pitch limit, and two ran on a yaw beyond a
\* full turn.
C15_Witness ==
    /\ trace.events = 2
    /\ ~isNaN(pitch) /\ ~isNaN(yaw) /\ ~isNaN(perspCamera.fov)
    /\ \/ halfToRad(projVFovDeg - perspCamera.fov) < 0
       \/ projHFovDeg = 360 * Deg /\ yaw = 7000 - TwoPi

\* C16: no NaN is stored in the camera's FOV, yaw or pitch: a clamp that
\* receives NaN hands back a valid bound.
C16_NoNaNStored ==
    trace.handler = "clamps"
        => /\ ~isNaN(perspCamera.fov) /\ ~isNaN(yaw) /\ ~isNaN(pitch)
           /\ VR_VFOV_MIN_DEG <= perspCamera.fov
           /\ perspCamera.fov <= VR_VFOV_MAX_DEG

----------------------------------------------------------------------------
(* Claims about the camera, checked under SpecCamera *)

Abs(x) == IF x < 0 THEN 0 - x ELSE x

\* C13: after every drag, wheel, resize or projection handler that
\* completes while the perspective camera is active, |pitch| is at most
\* (projVFovDeg - fov) / 2 and, for a horizontal span of 180 degrees, |yaw| is
\* at most (180 - currentHFovDeg) / 2, in radians.
C13_OrientationWithinLimits ==
    (/\ trace.handler \in {"drag", "wheel", "resize", "projection"}
     /\ camera = "perspCamera")
        => /\ Abs(pitch) <= halfToRad(projVFovDeg - perspCamera.fov)
           /\ projHFovDeg = 180 * Deg
                 => Abs(yaw) <= halfToRad(projHFovDeg
                                   - vFovDegToHFovDeg(perspCamera.fov, currentAspect(canvas)))

\* C14: in the full-sphere projection the yaw is below a full turn in
\* absolute value and congruent modulo a full turn to the sum of the drag
\* deltas applied since the orientation was reset, times the sensitivity.
C14_YawWraps ==
    (camera = "perspCamera" /\ projHFovDeg = 360 * Deg)
        => /\ Abs(yaw) < TwoPi
           /\ (yaw - trace.dragSum) % TwoPi = 0

\* Two drags of 700 pixels took the yaw beyond a full turn, and it wrapped.
C14_Witness ==
    /\ camera = "perspCamera" /\ projHFovDeg = 360 * Deg
    /\ trace.handler = "drag"
    /\ Abs(trace.dragSum) > TwoPi
    /\ Abs(yaw) = Abs(trace.dragSum) - TwoPi

\* C17: a switch to a spherical projection leaves yaw and pitch zero and
\* the FOV the clamped default, whatever the camera was before; a switch to
\* flat selects the orthographic camera with rotation (0, 0, 0).
C17_SwitchResets ==
    trace.handler = "projection"
        => IF isVrProjection(projection)
           THEN /\ camera = "perspCamera"
                /\ yaw = 0 /\ pitch = 0
                /\ perspCamera.rotation = <<0, 0, 0>>
                /\ perspCamera.fov <= VR_VFOV_DEG
                /\ CameraOf(This) =
                      CameraOf(applyProjectionAndViewGeometry(
                          RenderNew(canvas, [videoWidth |-> videoWidth,
                                             videoHeight |-> videoHeight]), projection))
           ELSE /\ camera = "orthoCamera"
                /\ orthoCamera.rotation = <<0, 0, 0>>

\* The projection changed between the two spherical ones after a drag and a
\* wheel turn had moved the camera.
C17_Witness ==
    /\ trace.handler = "projection"
    /\ isVrProjection(projection)
    /\ trace.before.yaw # 0
    /\ trace.before.fov # VR_VFOV_DEG
    /\ yaw = 0 /\ perspCamera.fov = VR_VFOV_DEG

----------------------------------------------------------------------------
(* Claims about the materials, checked under SpecMaterial *)

\* the handlers that call updateMaterial, once each
Updating == {"projection", "view", "layout", "resolution", "calibration"}

\* C18: in every call of updateMaterial the bound material is disposed and
\* a new one made iff the type resolved from projection and view differs
\* from the tag of the bound material; a call that changes only layout,
\* resolution, eye or calibration values keeps the same material object.
C18_RecreatedIffTypeDiffers ==
    [][(trace'.events # trace.events /\ trace'.handler \in Updating)
          => /\ (material'.id # material.id)
                   <=> (material.type #
                           (IF projection' \in {"vr180", "vr360"}
                            THEN IF view' = "anaglyph" THEN "vr-anaglyph" ELSE "vr-equirect"
                            ELSE IF view' = "anaglyph" THEN "flat-anaglyph"
                                 ELSE IF view' = "watch" THEN "flat-watch"
                                 ELSE "flat-basic"))
             /\ material'.id # material.id
                   => material.id \in retired' /\ material'.id \notin retired'
             /\ (projection' = projection /\ view' = view)
                   => material'.id = material.id /\ retired' = retired]_vars

\* A slider moved after the eye had changed, while a material made by a change
\* of the view was bound, and the material stayed the same object.
C18_Witness ==
    /\ trace.handler = "calibration"
    /\ calibration # DefaultCalibration
    /\ eye = "right"
    /\ view = "anaglyph"
    /\ material.id = trace.materialId
    /\ trace.materialId \notin retired
    /\ retired # {}

\* C19: the bound material's tag is the one of the five that projection
\* and view determine, and its fragment shader is the program of that tag.
C19_TypeFollowsState ==
    trace.handler \in {"none", "projection", "view"}
        => /\ material.type =
                 (CASE projection \in {"vr180", "vr360"} /\ view = "anaglyph" -> "vr-anaglyph"
                    [] projection \in {"vr180", "vr360"} /\ view # "anaglyph" -> "vr-equirect"
                    [] projection = "flat" /\ view = "anaglyph" -> "flat-anaglyph"
                    [] projection = "flat" /\ view = "watch" -> "flat-watch"
                    [] projection = "flat" /\ view = "original" -> "flat-basic")
           /\ material.fragmentShader =
                 (CASE material.type = "vr-anaglyph" -> "ANAGLYPH_FRAGMENT_SHADER"
                    [] material.type = "vr-equirect" -> "EQUIRECT_FRAGMENT_SHADER"
                    [] material.type = "flat-anaglyph" -> "ANAGLYPH_FLAT_FRAGMENT_SHADER"
                    [] material.type = "flat-watch" -> "WATCH_FLAT_FRAGMENT_SHADER"
                    [] material.type = "flat-basic" -> "none"
                    [] OTHER -> "unknown")

\* The projection became spherical in the anaglyph view and the material was
\* made anew with the spherical anaglyph program.
C19_Witness ==
    /\ trace.handler = "projection"
    /\ view = "anaglyph"
    /\ material.type = "vr-anaglyph"
    /\ material.fragmentShader = "ANAGLYPH_FRAGMENT_SHADER"
    /\ material.id # trace.materialId

\* the value the state of the Store gives to a parameter of a program
Derived(n) ==
    CASE n = "map" -> "videoTexture"
      [] n = "u_h_fov_rad" -> IF projection = "vr180" THEN Pi ELSE Pi * 2
      [] n = "u_v_fov_rad" -> Pi
      [] n = "uLayout" -> IF layout = "sbs" THEN 0 ELSE 1
      [] n = "uHalfRes" -> resolution = "half"
      [] n = "uIsWatchView" -> view = "watch"
      [] n = "uLeftEye" -> eye # "right"
      [] n = "uEdgeFeather" -> IF projection = "vr180" THEN <<5, 5>> ELSE <<0, 0>>
      [] n = "uSwapEyes" -> 0
      [] n = "uAntiRed" -> calibration.antiR
      [] n = "uAntiGreen" -> calibration.antiG
      [] n = "uAntiBlue" -> calibration.antiB
      [] n = "uGreenBalance" -> calibration.balance
      [] n = "uConvergence" -> calibration.convergence
      [] n = "uDepth" -> calibration.depthCompression

\* C20: after updateMaterial has returned, every parameter the bound program
\* declares holds the value derived from the state, the six calibration
\* scalars of the anaglyph programs included, and a change of the eye in the
\* Store has reached the bound program.
C20_UniformsFollowState ==
    trace.handler \in Updating \cup {"eye"}
        => \A n \in DeclaredUniforms(material.fragmentShader) :
              /\ n \in DOMAIN material.uniforms
              /\ material.uniforms[n] = Derived(n)

\* C21: after every updateMaterial call the bound material shows the back
\* face only when the projection is spherical and the front face only when
\* it is flat, whether the material was made anew or reused.
C21_SideFollowsProjection ==
    trace.handler \in Updating \cup {"none"}
        => material.side = (IF projection \in {"vr180", "vr360"}
                            THEN "BackSide" ELSE "FrontSide")

\* A change of the layout reused the spherical anaglyph material, which kept
\* showing its back face.
C21_Witness ==
    /\ trace.handler = "layout"
    /\ projection \in {"vr180", "vr360"}
    /\ material.type = "vr-anaglyph"
    /\ material.id = trace.materialId
    /\ material.side = "BackSide"

----------------------------------------------------------------------------
(* Claims about the fragment shaders, checked under SpecShader *)

Anaglyph == {"ANAGLYPH_FRAGMENT_SHADER", "ANAGLYPH_FLAT_FRAGMENT_SHADER"}

\* linear colour at every hundredth, and its display encoding
\* 12.92 c below 0.0031308, else 1.055 c^(1/2.4) - 0.055
LinearGrid == [i \in 1..101 |-> (i - 1) * 100]
EncodedGrid ==
    <<0, 999, 1517, 1897, 2209, 2478, 2717, 2934, 3133, 3318, 3492, 3656,
      3811, 3959, 4100, 4236, 4366, 4492, 4614, 4731, 4845, 4956, 5064, 5169,
      5271, 5371, 5469, 5564, 5657, 5749, 5838, 5926, 6012, 6097, 6180, 6262,
      6343, 6422, 6500, 6576, 6652, 6726, 6800, 6872, 6944, 7014, 7084, 7152,
      7220, 7287, 7354, 7419, 7484, 7548, 7611, 7674, 7736, 7797, 7858, 7918,
      7977, 8036, 8095, 8153, 8210, 8267, 8323, 8379, 8434, 8489, 8543, 8597,
      8650, 8703, 8756, 8808, 8860, 8911, 8962, 9013, 9063, 9113, 9163, 9212,
      9261, 9309, 9357, 9405, 9453, 9500, 9547, 9593, 9640, 9686, 9731, 9777,
      9822, 9867, 9912, 9956, 10000>>

linearToSRGB(c) ==
    EncodedGrid[Cardinality({i \in DOMAIN LinearGrid : LinearGrid[i] <= clamp01(c)})]

sRGBToLinear(c) ==
    LinearGrid[Cardinality({i \in DOMAIN EncodedGrid : EncodedGrid[i] <= clamp01(c)})]

\* the Dubois composite of two display-encoded samples: decode, multiply by
\* the two matrices and add, clamp, encode
Dubois(leftRGB, rightRGB) ==
    LET l == [r |-> sRGBToLinear(leftRGB.r), g |-> sRGBToLinear(leftRGB.g),
              b |-> sRGBToLinear(leftRGB.b)]
        r == [r |-> sRGBToLinear(rightRGB.r), g |-> sRGBToLinear(rightRGB.g),
              b |-> sRGBToLinear(rightRGB.b)]
        sum(a1, a2, a3, b1, b2, b3) ==
            (a1 * l.r + a2 * l.g + a3 * l.b + b1 * r.r + b2 * r.g + b3 * r.b) \div One
    IN  [r |-> linearToSRGB(clamp01(sum(4561, 5005, 1764, 0 - 435, 0 - 879, 0 - 16))),
         g |-> linearToSRGB(clamp01(sum(0 - 401, 0 - 378, 0 - 158, 3785, 7336, 0 - 185))),
         b |-> linearToSRGB(clamp01(sum(0 - 152, 0 - 206, 0 - 55, 0 - 722, 0 - 1130, 12264)))]

\* C28: with the leak suppression at 0 and the green balance at 0.5 the
\* output of either anaglyph program is the Dubois composite of the two
\* samples (where the edge feather does not fade the fragment).
C28_DuboisComposite ==
    (/\ shader.program \in Anaglyph
     /\ shader.u.uAntiRed = 0 /\ shader.u.uAntiGreen = 0 /\ shader.u.uAntiBlue = 0
     /\ shader.u.uGreenBalance = 5000
     /\ shader.u.uEdgeFeather = <<0, 0>>)
        => shader.out.color = Dubois(texture2D(shader.map, shader.out.uvL),
                                     texture2D(shader.map, shader.out.uvR))

\* the coordinate along which the layout splits the frame
Split(uv) == IF shader.u.uLayout = 0 THEN uv[1] ELSE uv[2]
Across(uv) == IF shader.u.uLayout = 0 THEN uv[2] ELSE uv[1]

\* C29: at half resolution the centre of the view maps to the centre of the
\* selected eye's stored half, 0.25 for the left eye and 0.75 for the right
\* eye along the split axis, and with convergence 0.5 and depth 0 the anaglyph
\* programs sample the base coordinates.
C29_CentreOfHalf ==
    /\ (/\ shader.program = "EQUIRECT_FRAGMENT_SHADER"
        /\ shader.u.uIsWatchView /\ shader.u.uHalfRes
        /\ Split(shader.uv) = 5000)
          => /\ Split(shader.out.uvL) = (IF shader.u.uLeftEye THEN 2500 ELSE 7500)
             /\ Across(shader.out.uvL) = Across(shader.uv)
    /\ (/\ shader.program \in Anaglyph
        /\ shader.program = "ANAGLYPH_FRAGMENT_SHADER" => shader.u.uHalfRes
        /\ Split(shader.uv) = 5000)
          => /\ Split(shader.out.baseL) = 2500 /\ Split(shader.out.baseR) = 7500
             /\ Across(shader.out.baseL) = Across(shader.uv)
             /\ Across(shader.out.baseR) = Across(shader.uv)
    /\ (/\ shader.program \in Anaglyph
        /\ shader.u.uConvergence = 5000 /\ shader.u.uDepth = 0)
          => shader.out.uvL = shader.out.baseL /\ shader.out.uvR = shader.out.baseR

\* The right eye of a side-by-side frame at half resolution was watched at the
\* centre of the view, and the spherical anaglyph program sampled the two base
\* coordinates of an over-under frame.
C29_Witness ==
    \/ /\ shader.program = "EQUIRECT_FRAGMENT_SHADER"
       /\ shader.u.uIsWatchView /\ shader.u.uHalfRes /\ ~shader.u.uLeftEye
       /\ shader.u.uLayout = 0
       /\ shader.uv = <<5000, 1600>>
       /\ shader.out.uvL = <<7500, 1600>>
    \/ /\ shader.program = "ANAGLYPH_FRAGMENT_SHADER"
       /\ shader.u.uHalfRes /\ shader.u.uLayout = 1
       /\ shader.u.uConvergence = 5000 /\ shader.u.uDepth = 0
       /\ shader.uv = <<8000, 5000>>
       /\ shader.out.uvL = <<8000, 2500>> /\ shader.out.uvR = <<8000, 7500>>

\* the coordinates a program samples with another convergence
CoordsWith(c) ==
    LET u == [shader.u EXCEPT !.uConvergence = c]
        out == IF shader.program = "ANAGLYPH_FRAGMENT_SHADER"
               THEN anaglyphVrFragment(shader.uv, u, shader.map)
               ELSE anaglyphFlatFragment(shader.uv, u, shader.map)
    IN  <<out.uvL, out.uvR>>

\* C30: for the over-under layout the coordinates either anaglyph program
\* samples are the same for every convergence; for side-by-side the shift is
\* at most 0.01 in absolute value, added for the left eye and subtracted for
\* the right eye.
C30_ConvergenceOnlySbs ==
    shader.program \in Anaglyph
        => /\ shader.u.uLayout = 1
                 => \A c \in Convergences :
                       CoordsWith(c) = <<shader.out.uvL, shader.out.uvR>>
           /\ shader.u.uLayout = 0
                 => /\ glAbs(shader.out.shift) <= 100
                    /\ shader.u.uDepth = 0
                          => /\ shader.out.uvL[1]
                                   = clamp01(shader.out.baseL[1] + shader.out.shift)
                             /\ shader.out.uvR[1]
                                   = clamp01(shader.out.baseR[1] - shader.out.shift)

----------------------------------------------------------------------------
(* Claims about the geometry and the camera, checked under SpecCamera *)

\* C27: after every handled change of the projection the active camera is
\* the perspective camera iff the projection is spherical, and the geometry
\* and the recorded projection FOVs are a function of the projection alone:
\* a 2x2 plane (with the FOVs a renderer records for flat at construction) for
\* flat, a sphere segment spanning 180 by 180 degrees for vr180 and 360 by 180
\* degrees for vr360.
C27_GeometryFollowsProjection ==
    trace.handler = "projection"
        => /\ camera = (IF projection \in {"vr180", "vr360"}
                        THEN "perspCamera" ELSE "orthoCamera")
           /\ <<geometry, projHFovDeg, projVFovDeg>>
                  = (CASE projection = "flat"
                            -> <<PlaneGeometry(2, 2),
                                 RenderNew(canvas, This.video).projHFovDeg,
                                 RenderNew(canvas, This.video).projVFovDeg>>
                       [] projection = "vr180"
                            -> <<SphereGeometry(180 * Deg, 180 * Deg), 180 * Deg, 180 * Deg>>
                       [] projection = "vr360"
                            -> <<SphereGeometry(360 * Deg, 180 * Deg), 360 * Deg, 180 * Deg>>)

----------------------------------------------------------------------------
(* Claims about the render loop and the pipeline, checked under SpecLoop *)

\* the frame was drawn with the geometry and the camera of the projection of
\* s, and with the material type and the layout and resolution parameters of s
Sees(f, s) ==
    /\ f.geometry = (CASE s.projection = "flat" -> PlaneGeometry(2, 2)
                       [] s.projection = "vr180" -> SphereGeometry(180 * Deg, 180 * Deg)
                       [] s.projection = "vr360" -> SphereGeometry(360 * Deg, 180 * Deg))
    /\ f.camera = (IF s.projection = "flat" THEN "orthoCamera" ELSE "perspCamera")
    /\ f.material.type =
          (CASE s.projection # "flat" /\ view = "anaglyph" -> "vr-anaglyph"
             [] s.projection # "flat" /\ view # "anaglyph" -> "vr-equirect"
             [] s.projection = "flat" /\ view = "anaglyph" -> "flat-anaglyph"
             [] s.projection = "flat" /\ view = "watch" -> "flat-watch"
             [] s.projection = "flat" /\ view = "original" -> "flat-basic")
    /\ "uLayout" \in DOMAIN f.material.uniforms
          => f.material.uniforms["uLayout"] = (IF s.layout = "sbs" THEN 0 ELSE 1)
    /\ "uHalfRes" \in DOMAIN f.material.uniforms
          => f.material.uniforms["uHalfRes"] = (s.resolution = "half")

\* C22: when a detection result changes layout and projection together,
\* every frame rendered during the notifications of that Store.set is drawn
\* from the complete old or the complete new layout, resolution and
\* projection.
C22_WriteBackAtomic ==
    (/\ log.last = "detected"
     /\ log.old.layout # layout
     /\ log.old.projection # projection)
        => \A i \in 1..log.writeBack :
              \/ Sees(log.frames[i], log.old)
              \/ Sees(log.frames[i], [layout |-> layout, resolution |-> resolution,
                                      projection |-> projection])

LoopCallbacks ==
    {i \in DOMAIN renderLoop.pending : renderLoop.pending[i].callback = "loop"}

\* C23: start() while the loop runs and stop() while it is stopped change
\* nothing; at most one callback of the loop is pending in every state, none
\* while the loop is stopped, and a display refresh that finds the loop
\* stopped renders no frame of the loop.
C23_StartStopIdempotent ==
    /\ [](/\ Cardinality(LoopCallbacks) <= 1
          /\ renderLoop.frame = 0 => LoopCallbacks = {}
          /\ renderLoop.frame # 0 =>
                \E i \in LoopCallbacks : renderLoop.pending[i].id = renderLoop.frame
          /\ (log.last = "refresh" /\ log.frameBefore = 0) => log.loops = 0)
    /\ [][(/\ log'.last \in {"playback", "visibility"}
           /\ \/ log'.call = "start" /\ renderLoop.frame # 0
              \/ log'.call = "stop" /\ renderLoop.frame = 0)
             => /\ renderLoop' = renderLoop
                /\ UNCHANGED renderVarsButTrace
                /\ log'.frames = <<>>]_vars

\* The page became visible while playing with the loop already running:
\* start() was called, and the one callback of the loop is still the pending one.
C23_Witness ==
    /\ log.last = "visibility"
    /\ log.call = "start"
    /\ log.frameBefore # 0
    /\ renderLoop.frame = log.frameBefore
    /\ Cardinality(LoopCallbacks) = 1

\* C24: when a detection completes while the render loop is stopped, its
\* results are in the store, the loop is still stopped, and the completion
\* rendered no frame.
C24_StoppedStaysStopped ==
    (log.last = "detected" /\ log.frameBefore = 0)
        => /\ layout = log.results.layout
           /\ resolution = log.results.resolution
           /\ projection = log.results.projection
           /\ renderLoop.frame = 0
           /\ log.frames = <<>>

\* C25: between two display refreshes the body of the resize handling, of
\* the drag handling and of the wheel handling each ran at most once, and the
\* resize body ran for the latest event.
C25_OncePerRefresh ==
    /\ log.bodies.resize <= 1
    /\ log.bodies.drag <= 1
    /\ log.bodies.wheel <= 1
    /\ log.bodies.resize = 1 => log.bodies.ranWith = log.bodies.latest

\* C26: every marking of the video texture happened while the video had
\* data and dimensions (readyState >= 2, videoWidth > 0) and had advanced
\* since the last upload, and no two markings fell before the same frame.
C26_TextureMarks ==
    \A i \in DOMAIN log.marks :
       /\ log.marks[i].readyState >= 2
       /\ log.marks[i].videoWidth > 0
       /\ log.marks[i].advanced
       /\ \A j \in DOMAIN log.marks : j # i => log.marks[j].frame # log.marks[i].frame

----------------------------------------------------------------------------
(* Claims about the pairing of layout and resolution, checked under         *)
(* SpecLayout                                                               *)

----------------------------------------------------------------------------
(* Claims about the camera across a change of view, checked under           *)
(* SpecCamera                                                               *)

\* C36: after the handler of a change of the view alone, with the projection
\* spherical and unchanged, the yaw, the pitch and the vertical field of
\* view of the perspective camera are what they were before the handler.
C36_ViewKeepsCamera ==
    (trace.handler = "view" /\ isVrProjection(projection)) =>
        CameraOf(This) = trace.before

----------------------------------------------------------------------------
(* Claims about the render loop and the visibility of the document, checked *)
(* under SpecLoop                                                           *)

\* C34: in every reachable state where the document is hidden the render
\* loop is not running, and right after the document became visible the
\* loop runs iff playback is true.
C34_HiddenIsPaused ==
    /\ player.hidden => renderLoop.frame = 0
    /\ (log.last = "visibility" /\ ~player.hidden) =>
          (renderLoop.frame # 0 <=> player.playback)

----------------------------------------------------------------------------
(* The byte reader on sources of every JavaScript type.  A source is its    *)
(* typeof, whether it is falsy, its text when it is a string, whether it    *)
(* has a slice method, and the size of the Blob it is (for a blob: URL, of  *)
(* the Blob the URL was made for).  Bytes are named by their offsets: an    *)
(* ArrayBuffer is the span from..to of the Blob, to excluded.               *)

\* String.prototype.startsWith
startsWith(str, searchString) ==
    /\ Len(searchString) <= Len(str)
    /\ \A j \in 1..Len(searchString) : str[j] = searchString[j]

blobScheme == <<"b","l","o","b",":">>

\* Blob.prototype.slice(start, end) of a Blob of the given size, for
\* 0 <= start: both ends are clamped to the size, and the span is empty when
\* the end is not after the start
sliceSpan(size, start_, end) ==
    LET relativeStart == Min(start_, size)
        relativeEnd == Min(end, size)
    IN  [from |-> relativeStart,
         to |-> IF relativeEnd > relativeStart THEN relativeEnd ELSE relativeStart]

\* a reader that fetches whatever URL it is given
readBytesFrom_AnyUrl(fileOrUrl, start_, length) ==
    IF fileOrUrl.type = "string"
    THEN LET span == sliceSpan(fileOrUrl.size, start_, start_ + length)
         IN  [value |-> "buffer", fetched |-> <<fileOrUrl.text>>,
              from |-> span.from, to |-> span.to]
    ELSE IF ~fileOrUrl.falsy /\ fileOrUrl.slice
    THEN LET span == sliceSpan(fileOrUrl.size, start_, start_ + length)
         IN  [value |-> "buffer", fetched |-> <<>>, from |-> span.from, to |-> span.to]
    ELSE [value |-> "null", fetched |-> <<>>, from |-> 0, to |-> 0]

\* a reader that takes the length for the end of the slice
readBytesFrom_EndIsLength(fileOrUrl, start_, length) ==
    IF fileOrUrl.type = "string"
    THEN IF ~startsWith(fileOrUrl.text, blobScheme)
         THEN [value |-> "null", fetched |-> <<>>, from |-> 0, to |-> 0]
         ELSE LET span == sliceSpan(fileOrUrl.size, start_, length)
              IN  [value |-> "buffer", fetched |-> <<fileOrUrl.text>>,
                   from |-> span.from, to |-> span.to]
    ELSE IF ~fileOrUrl.falsy /\ fileOrUrl.slice
    THEN LET span == sliceSpan(fileOrUrl.size, start_, length)
         IN  [value |-> "buffer", fetched |-> <<>>, from |-> span.from, to |-> span.to]
    ELSE [value |-> "null", fetched |-> <<>>, from |-> 0, to |-> 0]

\* Detector._readBytes on any source: the fetches it issues and the buffer
\* or null its promise settles with
readBytesFrom(fileOrUrl, start_, length) ==
    IF fileOrUrl.type = "string"
    THEN IF ~startsWith(fileOrUrl.text, blobScheme)
         THEN [value |-> "null", fetched |-> <<>>, from |-> 0, to |-> 0]
         ELSE LET span == sliceSpan(fileOrUrl.size, start_, start_ + length)
              IN  [value |-> "buffer", fetched |-> <<fileOrUrl.text>>,
                   from |-> span.from, to |-> span.to]
    ELSE IF ~fileOrUrl.falsy /\ fileOrUrl.slice
    THEN LET span == sliceSpan(fileOrUrl.size, start_, start_ + length)
         IN  [value |-> "buffer", fetched |-> <<>>, from |-> span.from, to |-> span.to]
    ELSE [value |-> "null", fetched |-> <<>>, from |-> 0, to |-> 0]

\* the call of _readBytes as the io variable records it
ReadCall(by, lowerName, fileOrUrl, start_, length) ==
    LET r == readBytesFrom(fileOrUrl, start_, length)
    IN  [by |-> by, lowerName |-> lowerName, fileOrUrl |-> fileOrUrl, start |-> start_,
         length |-> length, fetched |-> r.fetched, value |-> r.value,
         from |-> r.from, to |-> r.to]

\* _extractXmpFromMp4: the read of the first CHUNK bytes
extractXmpFromMp4(lowerName, fileOrUrl) ==
    ReadCall("_extractXmpFromMp4", lowerName, fileOrUrl, 0, MP4_CHUNK)

\* _readMkvProjectionType: the read of the first CHUNK bytes
readMkvProjectionType(lowerName, fileOrUrl) ==
    ReadCall("_readMkvProjectionType", lowerName, fileOrUrl, 0, MKV_CHUNK)

\* _detectProjectionFromMetadata: the read it makes, if any
detectProjectionFromMetadata(file_, lowerName) ==
    IF isMp4OrMov(lowerName) THEN extractXmpFromMp4(lowerName, file_)
    ELSE IF isMkvOrWebm(lowerName) THEN readMkvProjectionType(lowerName, file_)
    ELSE [NoIo EXCEPT !.by = "_detectProjectionFromMetadata", !.lowerName = lowerName,
                      !.fileOrUrl = file_]

----------------------------------------------------------------------------
(* The byte-reader specification: _readBytes called on every kind of source *)
(* with small offsets and lengths, and the two extractors called through    *)
(* _detectProjectionFromMetadata on names of every extension.               *)

StringSource(text, size) ==
    [type |-> "string", falsy |-> text = <<>>, text |-> text, slice |-> TRUE, size |-> size]

BlobSource(size) ==
    [type |-> "object", falsy |-> FALSE, text |-> <<>>, slice |-> TRUE, size |-> size]

\* a value that is neither a string nor sliceable
PlainSource(type, falsy) ==
    [type |-> type, falsy |-> falsy, text |-> <<>>, slice |-> FALSE, size |-> 0]

ByteSources ==
    {StringSource(<<"h","t","t","p",":","/","/","a","/","v",".","m","p","4">>, 9),
     StringSource(<<"h","t","t","p","s",":","/","/","a","/","v",".","m","k","v">>, 9),
     StringSource(<<"f","i","l","e",":","/","/","/","v",".","m","p","4">>, 9),
     StringSource(<<"B","l","o","b",":","x">>, 9),
     StringSource(<<"x","b","l","o","b",":">>, 9),
     StringSource(<<"b","l","o","b">>, 9),
     StringSource(<<>>, 0),
     StringSource(<<"b","l","o","b",":","x">>, 9),
     StringSource(<<"b","l","o","b",":","y">>, MP4_CHUNK + 3),
     BlobSource(0),
     BlobSource(9),
     BlobSource(MKV_CHUNK + 1),
     BlobSource(MP4_CHUNK + 3),
     PlainSource("object", TRUE),
     PlainSource("undefined", TRUE),
     PlainSource("number", FALSE),
     PlainSource("object", FALSE)}

ByteStarts == {0, 2, 11}

ByteLengths == {0, 4, MKV_CHUNK}

LowerNames ==
    {<<"a",".","m","p","4">>, <<"a",".","m","o","v">>, <<"a",".","m","k","v">>,
     <<"a",".","w","e","b","m">>, <<"a",".","a","v","i">>}

InitBytes ==
    /\ DetectIdle
    /\ ScanIdle
    /\ VintIdle
    /\ RenderIdle
    /\ io = NoIo

\* a call of Detector._readBytes
ReadBytes ==
    /\ \E fileOrUrl \in ByteSources, start_ \in ByteStarts, length \in ByteLengths :
          io' = ReadCall("_readBytes", <<>>, fileOrUrl, start_, length)
    /\ UNCHANGED <<storeVars, detectVars, scanVars, vintVars, settingVars, renderVars,
                   loopVars, shaderVars, controls, pointer, repo, loads>>

\* a call of Detector._detectProjectionFromMetadata
DetectProjectionFromMetadata ==
    /\ \E file_ \in ByteSources, lowerName \in LowerNames :
          io' = detectProjectionFromMetadata(file_, lowerName)
    /\ UNCHANGED <<storeVars, detectVars, scanVars, vintVars, settingVars, renderVars,
                   loopVars, shaderVars, controls, pointer, repo, loads>>

NextBytes ==
    \/ ReadBytes
    \/ DetectProjectionFromMetadata

SpecBytes == InitBytes /\ [][NextBytes]_vars

----------------------------------------------------------------------------
(* Claims about the byte reader, checked under SpecBytes                    *)

\* offsets on both sides of every boundary a read can have
ProbeOffsets ==
    UNION {{n - 1, n, n + 1} :
              n \in {1, 2, 4, 6, 9, 11, 15, MKV_CHUNK, MKV_CHUNK + 2, MP4_CHUNK,
                     MP4_CHUNK + 3}}

IsRead == io.by \in {"_readBytes", "_extractXmpFromMp4", "_readMkvProjectionType"}

\* C32: no URL is fetched unless it starts with "blob:", and then it is the
\* source itself; a string source that does not start with "blob:" gives
\* null and no fetch; a source that is neither a string nor sliceable gives
\* null and no fetch; a File/Blob gives, without a fetch, exactly its bytes
\* at the offsets start <= k < start + length; the extractor of an MP4/MOV
\* asks for 16 MiB from offset 0 and the extractor of an MKV/WebM for 4 MiB
\* from offset 0, and neither gets more; a name of another extension reads
\* nothing.
C32_NoNetworkRead ==
    /\ \A i \in DOMAIN io.fetched :
          /\ startsWith(io.fetched[i], blobScheme)
          /\ io.fetched[i] = io.fileOrUrl.text
    /\ (IsRead /\ io.fileOrUrl.type = "string"
               /\ ~startsWith(io.fileOrUrl.text, blobScheme))
          => io.value = "null" /\ io.fetched = <<>>
    /\ (IsRead /\ io.fileOrUrl.type # "string"
               /\ (io.fileOrUrl.falsy \/ ~io.fileOrUrl.slice))
          => io.value = "null" /\ io.fetched = <<>>
    /\ (IsRead /\ io.fileOrUrl.type = "object" /\ ~io.fileOrUrl.falsy /\ io.fileOrUrl.slice)
          => /\ io.value = "buffer"
             /\ io.fetched = <<>>
             /\ \A k \in ProbeOffsets :
                   (io.from <= k /\ k < io.to)
                      <=> (/\ io.start <= k
                           /\ k < io.start + io.length
                           /\ k < io.fileOrUrl.size)
    /\ io.by = "_extractXmpFromMp4"
          => /\ isMp4OrMov(io.lowerName)
             /\ io.start = 0
             /\ io.length = 16 * 1024 * 1024
             /\ io.to - io.from <= 16 * 1024 * 1024
    /\ io.by = "_readMkvProjectionType"
          => /\ isMkvOrWebm(io.lowerName)
             /\ io.start = 0
             /\ io.length = 4 * 1024 * 1024
             /\ io.to - io.from <= 4 * 1024 * 1024
    /\ io.by = "_detectProjectionFromMetadata"
          => /\ ~isMp4OrMov(io.lowerName)
             /\ ~isMkvOrWebm(io.lowerName)
             /\ io.value = "null"
             /\ io.fetched = <<>>
    /\ (io.by # "none" /\ io.by # "_readBytes" /\ isMp4OrMov(io.lowerName))
          => io.by = "_extractXmpFromMp4"
    /\ (io.by # "none" /\ io.by # "_readBytes" /\ isMkvOrWebm(io.lowerName))
          => io.by = "_readMkvProjectionType"

\* The MP4 extractor was handed an http: URL: it got null and fetched nothing.
C32_Witness ==
    /\ io.by = "_extractXmpFromMp4"
    /\ io.fileOrUrl.type = "string"
    /\ startsWith(io.fileOrUrl.text, <<"h","t","t","p",":">>)
    /\ io.value = "null"
    /\ io.fetched = <<>>

\* The MP4 extractor was handed a File three bytes longer than 16 MiB: it
\* got the first 16 MiB.
C32_WitnessCapped ==
    /\ io.by = "_extractXmpFromMp4"
    /\ io.fileOrUrl = BlobSource(MP4_CHUNK + 3)
    /\ io.value = "buffer"
    /\ io.from = 0
    /\ io.to = MP4_CHUNK

----------------------------------------------------------------------------
(* Controls: the buttons and the keyboard shortcuts of view, projection,    *)
(* layout and resolution.  The buttons are button elements of the page: a   *)
(* button with the disabled attribute gets no click event, and its disabled *)
(* property is true exactly when it has the attribute.                      *)

\* Store.views, Store.projections, Store.layouts, Store.resolutions
views == <<"watch", "anaglyph", "original">>
projections == <<"flat", "vr180", "vr360">>
layouts == <<"sbs", "ou">>
resolutions == <<"half", "full">>

\* Array.prototype.indexOf, counted from 0, -1 when absent
indexOf(options, currentValue) ==
    IF \E i \in DOMAIN options : options[i] = currentValue
    THEN (CHOOSE i \in DOMAIN options :
             /\ options[i] = currentValue
             /\ \A j \in 1..(i - 1) : options[j] # currentValue) - 1
    ELSE 0 - 1

\* Repository.toggle(key, optionsKey): the value it sets
toggle(currentValue, options) ==
    LET currentIndex == indexOf(options, currentValue)
        nextIndex == (currentIndex + 1) % Len(options)
    IN  options[nextIndex + 1]

\* a view subscription that disables the layout buttons only
viewSubscription_LayoutOnly(c, s) ==
    [c EXCEPT !.layoutDisabled = s.view = "original"]

\* Controls: Store.subscribe("view", ...), the disabling of layout and
\* resolution
viewSubscription(c, s) ==
    [c EXCEPT !.layoutDisabled = s.view = "original",
              !.resolutionDisabled = s.view = "original"]

\* the click listener of a layout button: Store.set({ layout })
clickLayout(c, s, l) == IF c.layoutDisabled THEN s ELSE [s EXCEPT !.layout = l]

\* the click listener of a resolution button: Store.set({ resolution })
clickResolution(c, s, r) == IF c.resolutionDisabled THEN s ELSE [s EXCEPT !.resolution = r]

\* keyboardShortcuts: KeyL
keyL(c, s) ==
    IF ~c.layoutDisabled THEN [s EXCEPT !.layout = toggle(s.layout, layouts)] ELSE s

\* keyboardShortcuts: KeyS
keyS(c, s) ==
    IF ~c.resolutionDisabled
    THEN [s EXCEPT !.resolution = toggle(s.resolution, resolutions)] ELSE s

----------------------------------------------------------------------------
(* The controls specification: a video of 16 x 9 is loaded and playing      *)
(* behind a canvas of 200 x 100, and the user clicks buttons and presses    *)
(* keys, MaxInputs times at most.                                           *)

MaxInputs == 3

InitControls ==
    /\ name = <<>>
    /\ file = NoFile
    /\ layout = "sbs"
    /\ projection = "flat"
    /\ videoTracks = <<>>
    /\ videoWidth = 16
    /\ videoHeight = 9
    /\ pc = "idle"
    /\ layoutResult = NoResult
    /\ resolutionResult = NoResult
    /\ projectionResult = NoResult
    /\ ScanIdle
    /\ VintIdle
    /\ SettingsIdle
    /\ LoopIdle
    /\ shader = NoShader
    /\ io = NoIo
    /\ pointer = NoPointer
    /\ repo = NoRepo
    /\ loads = NoLoads
    /\ canvas = Canvas(200, 100)
    /\ Holds(PipelineNew(canvas, [videoWidth |-> videoWidth, videoHeight |-> videoHeight],
                         DefaultState))
    /\ trace = NoTrace
    /\ controls = viewSubscription(NoControls, DefaultState)

\* an input whose handler leaves the store at s: Store.set notifies the
\* subscriptions of the Pipeline and the view subscription of Controls
Input(last, s) ==
    /\ controls.inputs < MaxInputs
    /\ view' = s.view
    /\ layout' = s.layout
    /\ resolution' = s.resolution
    /\ projection' = s.projection
    /\ Commit(Notify(This, PipelineState, s))
    /\ controls' = [(IF s.view # view THEN viewSubscription(controls, s) ELSE controls)
                       EXCEPT !.last = last,
                              !.before = [view |-> view, layout |-> layout,
                                          resolution |-> resolution],
                              !.inputs = @ + 1]
    /\ UNCHANGED <<name, file, videoTracks, videoWidth, videoHeight, detectVars, scanVars,
                   vintVars, eye, calibration, canvas, trace, loopVars, shaderVars, io,
                   pointer, repo, loads>>

\* a click on a view button
ClickView == \E v \in Range(views) : Input("click-view", [PipelineState EXCEPT !.view = v])

\* KeyM
KeyM == Input("KeyM", [PipelineState EXCEPT !.view = toggle(view, views)])

\* a click on a projection button
ClickProjection ==
    \E p \in Range(projections) : Input("click-projection", [PipelineState EXCEPT !.projection = p])

\* KeyP
KeyP == Input("KeyP", [PipelineState EXCEPT !.projection = toggle(projection, projections)])

\* a click on a layout button
ClickLayout ==
    \E l \in Range(layouts) : Input("click-layout", clickLayout(controls, PipelineState, l))

\* KeyL
KeyL == Input("KeyL", keyL(controls, PipelineState))

\* a click on a resolution button
ClickResolution ==
    \E r \in Range(resolutions) :
       Input("click-resolution", clickResolution(controls, PipelineState, r))

\* KeyS
KeyS == Input("KeyS", keyS(controls, PipelineState))

NextControls ==
    \/ ClickView
    \/ KeyM
    \/ ClickProjection
    \/ KeyP
    \/ ClickLayout
    \/ KeyL
    \/ ClickResolution
    \/ KeyS

SpecControls == InitControls /\ [][NextControls]_vars

----------------------------------------------------------------------------
(* Claims about Source mode, checked under SpecControls                     *)

\* the store with another layout and another resolution
StoreWith(l, r) == [PipelineState EXCEPT !.layout = l, !.resolution = r]

\* the renderer after the layout and the resolution subscriptions ran for
\* another layout and another resolution
RenderedWith(l, r) == setResolution(setLayout(This, StoreWith(l, r)), StoreWith(l, r))

\* what the fragment program of a material reads from its uniforms, and the
\* colour it gives a fragment of a texture
FragmentOf(m, uv, map) ==
    IF m.fragmentShader = "EQUIRECT_FRAGMENT_SHADER"
    THEN equirectFragment(uv,
             [uLayout |-> m.uniforms.uLayout, uHalfRes |-> m.uniforms.uHalfRes,
              uIsWatchView |-> m.uniforms.uIsWatchView, uLeftEye |-> m.uniforms.uLeftEye,
              uEdgeFeather |-> <<m.uniforms.uEdgeFeather[1] * 100,
                                 m.uniforms.uEdgeFeather[2] * 100>>],
             map)
    ELSE NoFragment

----------------------------------------------------------------------------
(* Render: the pointer handlers.  An event is its clientX and clientY and,  *)
(* for a touch event, the number of its touches; the renderer is taken      *)
(* together with isDragging, dragLastX and dragLastY.                       *)

Dragging ==
    This @@ [isDragging |-> pointer.isDragging, dragLastX |-> pointer.dragLastX,
             dragLastY |-> pointer.dragLastY]

\* Render._handleDragStart
handleDragStart(t, clientX, clientY) ==
    [t EXCEPT !.isDragging = TRUE, !.dragLastX = clientX, !.dragLastY = clientY]

\* Render._handleDragMove, from the position of the pointer
handleDragMoveTo(t, clientX, clientY) ==
    [handleDragMove(t, clientX - t.dragLastX, clientY - t.dragLastY)
        EXCEPT !.dragLastX = clientX, !.dragLastY = clientY]

\* Render._onPointerDown
onPointerDown(t, e) ==
    IF t.camera # "perspCamera" THEN t ELSE handleDragStart(t, e.clientX, e.clientY)

\* a mousemove handler that does not look at isDragging
onPointerMove_NoFlag(t, e) ==
    IF t.camera # "perspCamera" THEN t ELSE handleDragMoveTo(t, e.clientX, e.clientY)

\* Render._onPointerMove
onPointerMove(t, e) ==
    IF ~t.isDragging \/ t.camera # "perspCamera" THEN t
    ELSE handleDragMoveTo(t, e.clientX, e.clientY)

\* Render._onPointerUp
onPointerUp(t) == [t EXCEPT !.isDragging = FALSE]

\* Render._onTouchStart
onTouchStart(t, e) ==
    IF t.camera # "perspCamera" \/ e.touches # 1 THEN t
    ELSE handleDragStart(t, e.clientX, e.clientY)

\* Render._onTouchMove
onTouchMove(t, e) ==
    IF t.camera # "perspCamera" \/ ~t.isDragging \/ e.touches # 1 THEN t
    ELSE handleDragMoveTo(t, e.clientX, e.clientY)

----------------------------------------------------------------------------
(* The pointer specification: mouse, touch and wheel events on the canvas   *)
(* and changes of the projection, MaxPointerEvents at most.                 *)

MaxPointerEvents == 5

\* positions of the pointer
Positions == {<<0, 0>>, <<400, 200>>}

InitPointer ==
    /\ name = <<>>
    /\ file = NoFile
    /\ layout = "sbs"
    /\ projection = "flat"
    /\ videoTracks = <<>>
    /\ videoWidth = 16
    /\ videoHeight = 9
    /\ pc = "idle"
    /\ layoutResult = NoResult
    /\ resolutionResult = NoResult
    /\ projectionResult = NoResult
    /\ ScanIdle
    /\ VintIdle
    /\ SettingsIdle
    /\ LoopIdle
    /\ shader = NoShader
    /\ io = NoIo
    /\ controls = NoControls
    /\ pointer = NoPointer
    /\ repo = NoRepo
    /\ loads = NoLoads
    /\ canvas = Canvas(200, 100)
    /\ Holds(PipelineNew(canvas, [videoWidth |-> videoWidth, videoHeight |-> videoHeight],
                         DefaultState))
    /\ trace = NoTrace

\* what a pointer handler leaves behind; held tells whether a pointer is
\* down after the event
PointerHandled(t, last, held) ==
    /\ pointer.events < MaxPointerEvents
    /\ Commit(t)
    /\ pointer' = [isDragging |-> t.isDragging, dragLastX |-> t.dragLastX,
                   dragLastY |-> t.dragLastY, held |-> held, last |-> last,
                   events |-> pointer.events + 1,
                   before |-> [camera |-> camera, yaw |-> yaw, pitch |-> pitch,
                               isDragging |-> pointer.isDragging, held |-> pointer.held,
                               perspCamera |-> [fov |-> perspCamera.fov,
                                                rotation |-> perspCamera.rotation],
                               orthoCamera |-> [rotation |-> orthoCamera.rotation]]]
    /\ UNCHANGED <<storeVars, detectVars, scanVars, vintVars, settingVars, trace, loopVars,
                   shaderVars, io, controls, repo,
                   loads>>

MouseDown ==
    \E xy \in Positions :
       PointerHandled(onPointerDown(Dragging, [clientX |-> xy[1], clientY |-> xy[2]]),
                      "pointer-down", TRUE)

MouseMove ==
    \E xy \in Positions :
       PointerHandled(onPointerMove(Dragging, [clientX |-> xy[1], clientY |-> xy[2]]),
                      "pointer-move", pointer.held)

MouseUp == PointerHandled(onPointerUp(Dragging), "pointer-up", FALSE)

TouchStart ==
    \E xy \in Positions, n \in {1, 2} :
       PointerHandled(onTouchStart(Dragging, [clientX |-> xy[1], clientY |-> xy[2],
                                              touches |-> n]),
                      "touch-start", TRUE)

TouchMove ==
    \E xy \in Positions, n \in {1, 2} :
       PointerHandled(onTouchMove(Dragging, [clientX |-> xy[1], clientY |-> xy[2],
                                             touches |-> n]),
                      "touch-move", pointer.held)

TouchEnd == PointerHandled(onPointerUp(Dragging), "touch-end", FALSE)

WheelOnCanvas ==
    \E deltaY \in WheelDeltas : PointerHandled(onWheel(Dragging, deltaY), "wheel", pointer.held)

\* Store.set({ projection }) -> this.render.setProjection(s)
SwitchProjection ==
    /\ pointer.events < MaxPointerEvents
    /\ \E p \in {"flat", "vr180"} :
          /\ p # projection
          /\ projection' = p
          /\ Commit(setProjection(This, [StoreState EXCEPT !.projection = p]))
    /\ pointer' = [pointer EXCEPT !.last = "projection", !.events = @ + 1]
    /\ UNCHANGED <<name, file, layout, videoTracks, videoWidth, videoHeight, detectVars,
                   scanVars, vintVars, settingVars, trace, loopVars, shaderVars, io, controls,
                   repo, loads>>

NextPointer ==
    \/ MouseDown
    \/ MouseMove
    \/ MouseUp
    \/ TouchStart
    \/ TouchMove
    \/ TouchEnd
    \/ WheelOnCanvas
    \/ SwitchProjection

SpecPointer == InitPointer /\ [][NextPointer]_vars

----------------------------------------------------------------------------
(* Claims about the pointer handlers, checked under SpecPointer             *)

\* C37: a pointer-down, pointer-move, touch-start, touch-move or wheel event
\* handled while the orthographic camera is active leaves yaw, pitch,
\* isDragging and the field of view and rotation of both cameras as they
\* were; and a pointer-move or touch-move handled while the perspective
\* camera is active changes yaw or pitch only if a pointer went down and no
\* pointer came up since.
C37_PointerEffects ==
    /\ (/\ pointer.last \in {"pointer-down", "pointer-move", "touch-start", "touch-move",
                             "wheel"}
        /\ pointer.before.camera = "orthoCamera")
          => /\ yaw = pointer.before.yaw
             /\ pitch = pointer.before.pitch
             /\ pointer.isDragging = pointer.before.isDragging
             /\ perspCamera.fov = pointer.before.perspCamera.fov
             /\ perspCamera.rotation = pointer.before.perspCamera.rotation
             /\ orthoCamera.rotation = pointer.before.orthoCamera.rotation
    /\ (/\ pointer.last \in {"pointer-move", "touch-move"}
        /\ pointer.before.camera = "perspCamera"
        /\ (yaw # pointer.before.yaw \/ pitch # pointer.before.pitch))
          => pointer.before.held

\* A pointer-move in a spherical projection after the pointer came up: yaw
\* and pitch, changed by the drag before, stay.
C37_Witness ==
    /\ pointer.last = "pointer-move"
    /\ pointer.before.camera = "perspCamera"
    /\ ~pointer.before.held
    /\ yaw # 0
    /\ yaw = pointer.before.yaw
    /\ pitch = pointer.before.pitch

----------------------------------------------------------------------------
(* Repository.  The state has the two fields f and g.  A subscriber is what *)
(* its closure holds: isWatchingAll, fieldsToWatch, lastValues, and whether *)
(* it is still in the Set of subscribers.  A callback is one of three       *)
(* programs: "plain" sets nothing, "zeroToOne" is                           *)
(* s => { if (s.f === 0) Store.set({ f: 1 }) } and "mirror" is              *)
(* s => Store.set({ g: s.f }).  seen and calls keep, for each callback, the *)
(* state it was invoked with last and its invocations in the operation made *)
(* last.                                                                    *)

RepoKeys == <<"f", "g">>

\* JSON.stringify of an object of numbers: its keys with the texts of their
\* values
stringify(values) ==
    LET keys == SelectSeq(RepoKeys, LAMBDA k : k \in DOMAIN values)
    IN  [i \in 1..Len(keys) |-> <<keys[i], ToText(values[keys[i]])>>]

\* subscribe: const getRelevantValues
getRelevantValues(w, state) ==
    IF w.isWatchingAll THEN state ELSE [k \in w.fieldsToWatch |-> state[k]]

RECURSIVE cb(_, _, _)
RECURSIVE notify(_, _)

\* Repository.set({ [key]: value })
set(r, key, value) == notify([r EXCEPT !.state[key] = value], 1)

\* the callback of subscriber id, invoked with the current state
cb(r, id, during) ==
    LET s == r.state
        invoked ==
            [r EXCEPT !.calls = Append(@, [id |-> id, state |-> s, during |-> during,
                                           first |-> ~r.seen[id].invoked,
                                           previous |-> r.seen[id].state,
                                           gone |-> id \in r.gone]),
                      !.seen[id].invoked = TRUE,
                      !.seen[id].state = s]
    IN  CASE r.seen[id].program = "zeroToOne" ->
                IF s.f = 0 THEN Then(invoked, LAMBDA x : set(x, "f", 1)) ELSE invoked
          [] r.seen[id].program = "mirror" -> Then(invoked, LAMBDA x : set(x, "g", s.f))
          [] OTHER -> invoked

\* subscribe: const wrappedCallback, of the subscriber at place i
wrappedCallback(r, i) ==
    LET currentValues == stringify(getRelevantValues(r.subscribers[i], r.state))
        hasChanged == currentValues # r.subscribers[i].lastValues
    IN  IF hasChanged
        THEN cb([r EXCEPT !.subscribers[i].lastValues = currentValues], i, "set")
        ELSE r

\* Repository._notify: Set.prototype.forEach from place i on, over the
\* subscribers that are in the Set when their turn comes
notify(r, i) ==
    IF i > Len(r.subscribers) THEN r
    ELSE IF ~r.subscribers[i].live THEN notify(r, i + 1)
    ELSE Then(wrappedCallback(r, i), LAMBDA x : notify(x, i + 1))

\* Repository.subscribe(fields, callback)
subscribe(r, isWatchingAll, fieldsToWatch, program) ==
    LET id == Len(r.seen) + 1
        w == [isWatchingAll |-> isWatchingAll, fieldsToWatch |-> fieldsToWatch]
    IN  Then(cb([r EXCEPT !.seen = Append(@, [invoked |-> FALSE, state |-> r.state,
                                              program |-> program])],
                id, "subscribe"),
             LAMBDA x :
                [x EXCEPT !.subscribers =
                     Append(@, [isWatchingAll |-> isWatchingAll,
                                fieldsToWatch |-> fieldsToWatch,
                                lastValues |-> stringify(getRelevantValues(w, x.state)),
                                live |-> TRUE])])

\* the function subscribe returned: this.subscribers.delete(wrappedCallback)
unsubscribe(r, i) == [r EXCEPT !.subscribers[i].live = FALSE, !.gone = @ \cup {i}]

----------------------------------------------------------------------------
(* The repository specification: MaxSubscribers subscriptions at most and   *)
(* MaxOps operations at most, each a subscribe, a set of one field, or an   *)
(* unsubscribe.                                                             *)

MaxSubscribers == 2
MaxOps == 4

RepoValues == {0, 1, 2}

Programs == {"plain", "zeroToOne", "mirror"}

InitRepo ==
    /\ DetectIdle
    /\ ScanIdle
    /\ VintIdle
    /\ SettingsIdle
    /\ LoopIdle
    /\ shader = NoShader
    /\ canvas = [clientWidth |-> 0, clientHeight |-> 0]
    /\ Holds(RenderNew([clientWidth |-> 0, clientHeight |-> 0],
                       [videoWidth |-> 0, videoHeight |-> 0]))
    /\ trace = NoTrace
    /\ io = NoIo
    /\ controls = NoControls
    /\ pointer = NoPointer
    /\ repo = NoRepo
    /\ loads = NoLoads

\* the repository as an operation finds it
Before(op) == [repo EXCEPT !.calls = <<>>, !.op = op, !.at = repo.state, !.ops = @ + 1]

RepoSubscribe ==
    /\ repo.ops < MaxOps
    /\ Len(repo.subscribers) < MaxSubscribers
    /\ \E all \in BOOLEAN, fields \in {{"f"}, {"g"}, {"f", "g"}}, program \in Programs :
          /\ all => fields = {"f", "g"}
          /\ repo' = subscribe(Before("subscribe"), all, fields, program)
    /\ UNCHANGED <<storeVars, detectVars, scanVars, vintVars, settingVars, renderVars,
                   loopVars, shaderVars, io, controls, pointer,
                   loads>>

RepoSet ==
    /\ repo.ops < MaxOps
    /\ \E key \in {"f", "g"}, value \in RepoValues :
          repo' = set(Before("set"), key, value)
    /\ UNCHANGED <<storeVars, detectVars, scanVars, vintVars, settingVars, renderVars,
                   loopVars, shaderVars, io, controls, pointer,
                   loads>>

RepoUnsubscribe ==
    /\ repo.ops < MaxOps
    /\ \E i \in DOMAIN repo.subscribers :
          /\ repo.subscribers[i].live
          /\ repo' = unsubscribe(Before("unsubscribe"), i)
    /\ UNCHANGED <<storeVars, detectVars, scanVars, vintVars, settingVars, renderVars,
                   loopVars, shaderVars, io, controls, pointer,
                   loads>>

NextRepo ==
    \/ RepoSubscribe
    \/ RepoSet
    \/ RepoUnsubscribe

SpecRepo == InitRepo /\ [][NextRepo]_vars

----------------------------------------------------------------------------
(* Claims about the Repository, checked under SpecRepo                      *)

\* the serialised values a subscriber watches, in a state
Watched(i, state) == stringify(getRelevantValues(repo.subscribers[i], state))

\* C33: subscribe invokes the callback once, with the state it found; an
\* invocation during a set() is never the first, is never of a callback that
\* was unsubscribed, and is made with watched values whose serialisation
\* differs from the one at the callback's previous invocation; and once an
\* operation is over no subscriber still in the Set is left with watched
\* values that differ from those at its previous invocation.
C33_SubscribeContract ==
    /\ repo.op = "subscribe" =>
          /\ Cardinality({n \in DOMAIN repo.calls :
                             repo.calls[n].id = Len(repo.subscribers)}) >= 1
          /\ \E n \in DOMAIN repo.calls :
                /\ repo.calls[n].id = Len(repo.subscribers)
                /\ repo.calls[n].during = "subscribe"
                /\ repo.calls[n].first
                /\ repo.calls[n].state = repo.at
          /\ \A n \in DOMAIN repo.calls :
                repo.calls[n].id = Len(repo.subscribers) => repo.calls[n].during = "subscribe"
    /\ \A n \in DOMAIN repo.calls :
          /\ ~repo.calls[n].gone
          /\ repo.calls[n].during = "set" =>
                /\ ~repo.calls[n].first
                /\ Watched(repo.calls[n].id, repo.calls[n].state)
                      # Watched(repo.calls[n].id, repo.calls[n].previous)
    /\ \A i \in DOMAIN repo.subscribers :
          repo.subscribers[i].live =>
             Watched(i, repo.state) = Watched(i, repo.seen[i].state)

----------------------------------------------------------------------------
(* Two videos loaded in succession.  Controls stores the name, the file and *)
(* a fresh object URL of a chosen file; the url subscriptions of the        *)
(* Pipeline and of the Player run, in the order main.js constructs them,    *)
(* and the assignment of video.src empties the element and drops the        *)
(* loadedmetadata event of the source it replaces.  The loadedmetadata      *)
(* handler calls detect(), whose two synchronous steps and whose            *)
(* detectProjection read the store at the call; the handler goes on when    *)
(* the byte read of detectProjection settles, at once when there is none.   *)
(* The clips are MP4/MOV files and files without an extension.              *)

MaxLoads == 2

Clip(n, f, w, h) ==
    [name |-> n, file |-> f, videoTracks |-> <<>>, videoWidth |-> w, videoHeight |-> h]

Clips ==
    << Clip(<<"a",".","m","p","4">>, Mp4File(TRUE, TRUE, Vr180Xmp), 32, 9),
       Clip(<<"b",".","m","p","4">>, Mp4File(FALSE, FALSE, NoXmp), 9, 16),
       Clip(<<"3","6","0">>, Mp4File(FALSE, FALSE, NoXmp), 16, 9),
       Clip(<<"d",".","M","O","V">>, [Mp4File(TRUE, TRUE, Vr180Xmp) EXCEPT !.readable = FALSE],
            16, 9) >>

InitLoads == InitLoop

\* Controls: Store.set({ name, file, url, playback: false }) for a valid file
LoadVideo(i) ==
    /\ Len(loads.loaded) < MaxLoads
    /\ name' = Clips[i].name
    /\ file' = Clips[i].file
    /\ videoTracks' = <<>>
    /\ videoWidth' = 0
    /\ videoHeight' = 0
    /\ player' = [player EXCEPT !.url = @ + 1, !.playback = FALSE, !.readyState = 0]
    /\ Quiet(Notify(This, PipelineState,
                    [PipelineState EXCEPT !.url = @ + 1, !.playback = FALSE]),
             "load", IF player.playback THEN "stop" ELSE "none")
    /\ loads' = [loads EXCEPT !.loaded = Append(@, i), !.metadata = "loading",
                              !.last = "load"]
    /\ UNCHANGED <<layout, projection, detectVars, scanVars, vintVars, settingVars, trace,
                   shaderVars, io, controls, pointer, repo>>

\* detect() up to the await: the store it reads, and the results of its two
\* synchronous steps; detectProjection reads the store in the same turn
detect(load, s, overlaps) ==
    [load |-> load, s |-> s, p |-> s, layout |-> detectLayout(s),
     resolution |-> resolutionOfDetect(s, detectLayout(s)), overlaps |-> overlaps]

\* what the byte read of _extractXmpFromMp4 makes of the file
metaOf(f) ==
    IF readBytes(f, 0, MP4_CHUNK).st # "bytes" THEN "null"
    ELSE IF extractXmp(f) = "null" THEN "null"
    ELSE classifyFromXmp(f.xmp)

\* the loadedmetadata handler after its await: Store.set of the three results
writeBack(s0, d, m) ==
    [s0 EXCEPT !.layout = d.layout.value, !.resolution = d.resolution.value,
               !.projection = projectionOf(m, d.p).value]

\* the rest of the loadedmetadata handler for the detection d, the element
\* and the renderer being t: the write-back, playback, and a resize
Finish(t, d, m, last, readyState, pending) ==
    LET s0 == PipelineState
        s1 == writeBack(s0, d, m)
        s2 == [s1 EXCEPT !.playback = TRUE]
        t1 == Notify(t, s0, s1)
        t3 == Then(t1, LAMBDA x : Then(Notify(x, s1, s2), LAMBDA t2 : resize(t2, s2)))
        results == [layout |-> s1.layout, resolution |-> s1.resolution,
                    projection |-> s1.projection]
    IN  /\ layout' = s1.layout
        /\ resolution' = s1.resolution
        /\ projection' = s1.projection
        /\ player' = [player EXCEPT !.playback = TRUE, !.readyState = readyState,
                                    !.detecting = pending # <<>>]
        /\ Ran(t3, last, IF s0.playback THEN "none" ELSE "start", renderLoop.debounce,
               renderLoop.args, log.bodies, 0, Len(t1.frames), results)
        /\ loads' = [loads EXCEPT !.metadata = "loaded", !.pending = pending,
                                  !.settled = Append(@, d @@ [results |-> results]),
                                  !.last = last]

\* loadedmetadata of the source the element holds
MetadataLoaded ==
    /\ loads.metadata = "loading"
    /\ LET c == Clips[loads.loaded[Len(loads.loaded)]]
           element == [videoTracks |-> c.videoTracks, videoWidth |-> c.videoWidth,
                       videoHeight |-> c.videoHeight]
           d == detect(Len(loads.loaded), [StoreGet EXCEPT !.video = element],
                       loads.pending # <<>>)
           t == [This EXCEPT !.video = [videoWidth |-> c.videoWidth,
                                        videoHeight |-> c.videoHeight],
                             !.readyState = 1]
       IN  /\ videoTracks' = c.videoTracks
           /\ videoWidth' = c.videoWidth
           /\ videoHeight' = c.videoHeight
           /\ IF isMp4OrMov(toLowerCase(d.p.name))
              THEN /\ loads' = [loads EXCEPT !.metadata = "loaded",
                                             !.pending = Append(@, d),
                                             !.last = "loadedmetadata"]
                   /\ player' = [player EXCEPT !.readyState = 1, !.detecting = TRUE]
                   /\ Quiet(t, "loadedmetadata", "none")
                   /\ UNCHANGED <<layout, projection, resolution>>
              ELSE Finish(t, d, "null", "loadedmetadata", 1, loads.pending)
    /\ UNCHANGED <<name, file, detectVars, scanVars, vintVars, view, eye, calibration, canvas,
                   trace, shaderVars, io, controls, pointer, repo>>

\* the byte read of a pending detection settles
ReadSettles(k) ==
    /\ k \in DOMAIN loads.pending
    /\ Finish(This, loads.pending[k], metaOf(loads.pending[k].p.file), "settled",
              player.readyState,
              SubSeq(loads.pending, 1, k - 1)
                 \o SubSeq(loads.pending, k + 1, Len(loads.pending)))
    /\ UNCHANGED <<name, file, videoTracks, videoWidth, videoHeight, detectVars, scanVars,
                   vintVars, view, eye, calibration, canvas, trace, shaderVars, io,
                   controls, pointer, repo>>

NextLoads ==
    \/ \E i \in DOMAIN Clips : LoadVideo(i)
    \/ MetadataLoaded
    \/ \E k \in 1..MaxLoads : ReadSettles(k)

SpecLoads == InitLoads /\ [][NextLoads]_vars

\* the detections begun so far
Detections ==
    {[load |-> d.load, s |-> d.s, p |-> d.p] : d \in Range(loads.pending)}
        \cup {[load |-> d.load, s |-> d.s, p |-> d.p] : d \in Range(loads.settled)}

\* the store holds what was detected for the video loaded last
LastLoadWins ==
    \A d \in Range(loads.settled) :
        d.load = Len(loads.loaded) =>
            /\ layout = d.results.layout
            /\ resolution = d.results.resolution
            /\ projection = d.results.projection

\* a detection read the name, the file and the dimensions of one video
OneVideoPerDetection ==
    \A d \in Detections :
        LET c == Clips[loads.loaded[d.load]]
        IN  /\ d.s.name = c.name /\ d.p.name = c.name
            /\ d.s.file = c.file /\ d.p.file = c.file
            /\ d.s.video.videoWidth = c.videoWidth
            /\ d.s.video.videoHeight = c.videoHeight

\* two videos were loaded, their detections overlapped and both have completed
BothCompleted ==
    /\ Len(loads.loaded) = 2
    /\ Len(loads.settled) = 2
    /\ \E d \in Range(loads.settled) : d.overlaps

\* C35: when two videos are loaded in succession and their detections
\* overlap, then after both detections have completed the store's layout,
\* resolution and projection are the ones detected for the video loaded
\* last, in whatever order the byte reads settle; and no detection result is
\* computed from the name or file of one video and the dimensions of another.
C35_LastLoadWins ==
    /\ BothCompleted => LastLoadWins
    /\ OneVideoPerDetection

====
